---- MODULE Spec2Model ----
(***************************************************************************)
(* RealEstateAggregator scraper: the store gateway (upsert_listing and its *)
(* photo synchronisation), the deactivation sweep and the job runner.      *)
(*                                                                         *)
(* The database is PostgreSQL at its default isolation level (READ         *)
(* COMMITTED).  A single statement is atomic; the photo replacement is a   *)
(* transaction of several statements.  Every await of the Python code is a *)
(* point where other tasks (and other connections) take steps.             *)
(***************************************************************************)
EXTENDS Integers, Sequences, FiniteSets, TLC

VARIABLES
    config,       \* FilterManager.config (immutable after load)
    clock,        \* the time datetime.utcnow() reads; it has advanced by
                  \* the time upsert_listing takes its  now
    listings,     \* table re_realestate.listings: a set of rows
    photos,       \* table re_realestate.listing_photos: the committed rows
    call,         \* the upsert_listing invocations: call[c]
    scrape_jobs,  \* table re_realestate.scrape_jobs: scrape_jobs[j]
    runner,       \* the run_scrape_job task of job j: runner[j]
    adapter,      \* the scraper.run() coroutine of job j for source s
    http,         \* a fetch wrapped by http_retry
    cadastre,     \* table listing_cadastre_data: fetch_status of the row of
                  \* listing l ("none": the listing has no row)
    ruian,        \* the bulk_ruian_lookup runs: ruian[p]
    geocoded,     \* listings.latitude of listing l, and the outcome of the
                  \* last geocoding of l (history; the code stores no failure)
    geo,          \* the geocoding tasks: geo[g], a bulk_geocode run or a
                  \* GET /v1/geocode/single call
    nominatim,    \* the geocoding API as the process uses it: the requests
                  \* in flight, the number sent, and whether a rate-limit
                  \* sleep has ended since the last one was sent
    discovery,    \* discovery[j][s]: whether the adapter of job j for source
                  \* s ended its page loop on a fetch error (history)
    pager,        \* the page loop of one adapter run over one search configuration
    sem,          \* the semaphore and the detail tasks of one page of an adapter run
    reas,         \* ReasScraper._scrape_category for one category
    remax,        \* RemaxScraper.run: the loop over the search configurations
    browser       \* the browser singleton and the callers of get_browser_manager

\* the state beside the store and the jobs
services == <<http, cadastre, ruian, geocoded, geo, nominatim, discovery, pager, sem, reas, remax, browser>>

vars == <<config, clock, listings, photos, call, scrape_jobs, runner, adapter,
          services>>

-----------------------------------------------------------------------------
(* Bounds of the model *)

NumJobs == 2
NumCalls == 2
NumListings == 2
NumRuns == 2

Jobs == 1..NumJobs
Calls == 1..NumCalls
\* the ids of the listings the enrichment operations work on
ListingIds == 1..NumListings
\* the background runs of one enrichment operation
Runs == 1..NumRuns

\* the external ids of the portals' listings, in the order of their first use
ExtOrder == <<"X1", "X2">>

(* Program constants *)

MaxPhotos == 20

Null == <<>>

-----------------------------------------------------------------------------
(* The sources: the adapters run_scrape_job schedules, in the order it     *)
(* appends their tasks.  Two of the thirteen adapters are modelled: REMAX  *)
(* saves its listings one after the other, SREALITY saves the listings of  *)
(* a page concurrently and retries a page on HTTP 429.                     *)

AdapterOrder == <<"REMAX", "SREALITY">>

Sources == {AdapterOrder[i] : i \in 1..Len(AdapterOrder)}

\* table re_realestate.sources: code -> id (code is UNIQUE)
SourceTable == [s \in Sources |-> IF s = "REMAX" THEN 1 ELSE 2]

\* request.source_codes of a ScrapeTriggerRequest (<<>>: none given)
RequestSources == {<<>>, <<"SREALITY">>, <<"BOGUS">>}

Range(seq) == {seq[i] : i \in 1..Len(seq)}

\* runner.py 61-75: request.source_codes or [all sources]
ResolveSources(codes) == IF codes = <<>> THEN Sources ELSE Range(codes)

\* runner.py 93-170: the tasks list, in scheduling order
RECURSIVE TasksFrom(_, _)
TasksFrom(order, codes) ==
    IF order = <<>> THEN <<>>
    ELSE IF Head(order) \in codes
         THEN <<Head(order)>> \o TasksFrom(Tail(order), codes)
         ELSE TasksFrom(Tail(order), codes)

Tasks(codes) == TasksFrom(AdapterOrder, ResolveSources(codes))

-----------------------------------------------------------------------------
(* Strings the code inspects character by character are sequences of      *)
(* one-character strings.                                                  *)

Znojmo == <<"Z", "n", "o", "j", "m", "o">>
OkresZnojmo == <<"o", "k", "r", "e", "s", " ">> \o Znojmo
Brno == <<"B", "r", "n", "o">>

\* str.lower()
LowerChar(ch) ==
    CASE ch = "Z" -> "z"
      [] ch = "B" -> "b"
      [] OTHER -> ch

Lower(str) == [i \in 1..Len(str) |-> LowerChar(str[i])]

\* Python's  needle in haystack  on strings
IsSubstring(needle, haystack) ==
    \E i \in 0..(Len(haystack) - Len(needle)) :
        SubSeq(haystack, i + 1, i + Len(needle)) = needle

-----------------------------------------------------------------------------
(* Listing records handed to upsert_listing (listing_data).  A nullable    *)
(* number is Null or <<n>>.                                                *)

LongPhotoList == [i \in 1..(MaxPhotos + 1) |-> i]

BaseData ==
    [property_type |-> "Dum", offer_type |-> "Prodej", price |-> <<1500000>>,
     location_text |-> OkresZnojmo, description_len |-> 40, photos |-> <<2, 1>>]

\* the records the adapters emit
ListingData ==
    {BaseData,
     [BaseData EXCEPT !.price = <<7500000>>, !.photos = LongPhotoList],
     [BaseData EXCEPT !.price = <<7500000>>, !.photos = <<>>]}

NumVal(n) == IF n = Null THEN 0 ELSE n[1]

-----------------------------------------------------------------------------
(* FilterManager (filters.py) *)

\* a per-type stanza of search_filters; 0 and {} stand for an absent key
NoStanza == [enabled |-> TRUE, offer_types |-> {}, min_price |-> 0, max_price |-> 0]

\* filters.py 36-49
DefaultConfig ==
    [quality_filters |->
        [require_photos |-> TRUE, min_photos |-> 1, require_price |-> TRUE,
         require_location |-> TRUE, require_description |-> FALSE,
         min_description_length |-> 20],
     search_filters |->
        [target_districts |-> {Znojmo},
         houses |-> [NoStanza EXCEPT !.max_price = 7500000],
         land |-> [NoStanza EXCEPT !.max_price = 2000000],
         apartments |-> NoStanza,
         commercial |-> NoStanza]]

\* a settings.yaml that states the search filters and no quality filter
OpenConfig == [DefaultConfig EXCEPT !.quality_filters.require_photos = FALSE,
                                    !.quality_filters.require_price = FALSE,
                                    !.quality_filters.require_location = FALSE]

Configs == {DefaultConfig, OpenConfig}

Accept == <<TRUE, "">>
Reject(reason) == <<FALSE, reason>>

\* filters.py 75-102
CheckQualityFilters(cfg, data) ==
    LET qf == cfg.quality_filters IN
    IF qf.require_photos
       /\ (data.photos = <<>> \/ Len(data.photos) < qf.min_photos)
    THEN Reject("Insufficient photos")
    ELSE IF qf.require_price /\ NumVal(data.price) = 0
    THEN Reject("Missing price")
    ELSE IF qf.require_location /\ data.location_text = <<>>
    THEN Reject("Missing location")
    ELSE IF qf.require_description
            /\ (data.description_len = 0
                \/ data.description_len < qf.min_description_length)
    THEN Reject("Description too short")
    ELSE Accept

\* filters.py 124-190: one property-type stanza
CheckStanza(stanza, name, data) ==
    LET price == NumVal(data.price) IN
    IF ~stanza.enabled
    THEN Reject(name \o " disabled")
    ELSE IF stanza.offer_types # {} /\ data.offer_type \notin stanza.offer_types
    THEN Reject("Offer type not in filter")
    ELSE IF price # 0 /\ stanza.max_price # 0 /\ price > stanza.max_price
    THEN Reject("Price exceeds max")
    ELSE IF price # 0 /\ stanza.min_price # 0 /\ price < stanza.min_price
    THEN Reject("Price below min")
    ELSE Accept

\* filters.py 104-192
CheckSearchFilters(cfg, data) ==
    LET sf == cfg.search_filters
        location_text == Lower(data.location_text)
    IN
    IF sf.target_districts # {}
       /\ ~(\E district \in sf.target_districts :
                IsSubstring(Lower(district), location_text))
    THEN Reject("District not in target list")
    ELSE IF data.property_type = "House"
    THEN CheckStanza(sf.houses, "Houses", data)
    ELSE IF data.property_type = "Land"
    THEN CheckStanza(sf.land, "Land", data)
    ELSE IF data.property_type = "Apartment"
    THEN CheckStanza(sf.apartments, "Apartments", data)
    ELSE IF data.property_type = "Commercial"
    THEN CheckStanza(sf.commercial, "Commercial", data)
    ELSE Accept

\* a policy that admits every record
AdmitAll(cfg, data) == Accept

\* filters.py 51-73
should_include_listing(cfg, data) ==
    LET quality_result == CheckQualityFilters(cfg, data) IN
    IF ~quality_result[1] THEN quality_result
    ELSE LET search_result == CheckSearchFilters(cfg, data) IN
         IF ~search_result[1] THEN search_result ELSE Accept

-----------------------------------------------------------------------------
(* upsert_listing: the mapping to the enum values of the database.  The   *)
(* Czech strings are written without their diacritics.                     *)

\* database.py 130-139, 146
property_type_db(property_type) ==
    CASE property_type = "Dum" -> "House"
      [] property_type = "Byt" -> "Apartment"
      [] property_type = "Pozemek" -> "Land"
      [] property_type = "Chata" -> "Cottage"
      [] property_type = "Komercni" -> "Commercial"
      [] property_type = "Prumyslovy" -> "Industrial"
      [] property_type = "Garaz" -> "Garage"
      [] property_type = "Ostatni" -> "Other"
      [] OTHER -> "Other"

\* database.py 141-144, 147
offer_type_db(offer_type) ==
    CASE offer_type = "Prodej" -> "Sale"
      [] offer_type = "Pronajem" -> "Rent"
      [] OTHER -> "Sale"

-----------------------------------------------------------------------------
(* The tables *)

\* database.py 156-162: the row of VALUES ($1 .. $16, true)
ListingRow(listing_id, source_code, external_id, data, now) ==
    [id |-> listing_id,
     source_id |-> SourceTable[source_code],
     source_code |-> source_code,
     external_id |-> external_id,
     property_type |-> property_type_db(data.property_type),
     offer_type |-> offer_type_db(data.offer_type),
     price |-> data.price,
     first_seen_at |-> now,
     last_seen_at |-> now,
     is_active |-> TRUE]

\* a conflict target of external_id alone, as a unique index without the
\* source would give: with it two sources share a row
ConflictRowsByExternalId(rows, excluded) ==
    {r \in rows : r.external_id = excluded.external_id}

\* database.py 163: ON CONFLICT (source_id, external_id)
ConflictRows(rows, excluded) ==
    {r \in rows : r.source_id = excluded.source_id
                  /\ r.external_id = excluded.external_id}

\* an update that overwrites every column but the id, first_seen_at included
DoUpdateAll(row, excluded) ==
    [excluded EXCEPT !.id = row.id]

\* database.py 164-175: DO UPDATE SET ...
DoUpdate(row, excluded) ==
    [row EXCEPT !.property_type = excluded.property_type,
                !.offer_type = excluded.offer_type,
                !.price = excluded.price,
                !.last_seen_at = excluded.last_seen_at,
                !.is_active = TRUE]

\* database.py 154-194: INSERT ... ON CONFLICT DO UPDATE, one atomic statement
UpsertRows(rows, excluded) ==
    LET conflict == ConflictRows(rows, excluded) IN
    IF conflict = {} THEN rows \cup {excluded}
    ELSE (rows \ conflict) \cup {DoUpdate(r, excluded) : r \in conflict}

\* database.py 176: RETURNING id
ReturningId(rows, excluded) ==
    (CHOOSE r \in ConflictRows(rows, excluded) : TRUE).id

PhotosOf(rows, listing_id) == {p \in rows : p.listing_id = listing_id}

\* database.py 221: photo_urls[:20]
CappedPhotos(photo_urls) ==
    SubSeq(photo_urls, 1, IF Len(photo_urls) < MaxPhotos THEN Len(photo_urls) ELSE MaxPhotos)

\* database.py 221-235: the rows the INSERT loop of transaction txn adds
NewPhotoRows(txn, listing_id, photo_urls) ==
    {[id |-> <<txn, idx>>, listing_id |-> listing_id,
      original_url |-> CappedPhotos(photo_urls)[idx + 1], order_index |-> idx] :
        idx \in 0..(Len(CappedPhotos(photo_urls)) - 1)}

\* The sweep: UPDATE listings SET is_active = false
\*            WHERE source_code = $1 AND last_seen_at < $2
DeactivateUnseen(rows, source_code, cutoff) ==
    {IF r.source_code = source_code /\ r.last_seen_at < cutoff
     THEN [r EXCEPT !.is_active = FALSE] ELSE r : r \in rows}

-----------------------------------------------------------------------------
(* http_retry (http_utils.py 30-43): tenacity's retry around a fetch.      *)
(* http.log is the outcome of every attempt made so far, http.sleeps the   *)
(* number of backoff waits.                                                *)

MaxAttempts == 3

\* what one attempt of the wrapped fetch does: it returns, or it raises
\* httpx.HTTPStatusError (raise_for_status, with the status), ConnectError,
\* TimeoutException, RemoteProtocolError, or an exception of another type
FetchOutcomes ==
    {"ok", "404", "429", "503", "ConnectError", "TimeoutException",
     "RemoteProtocolError", "ValueError"}

\* http_utils.py 31-38: retry_if_exception_type((httpx.HTTPStatusError,
\* httpx.ConnectError, httpx.TimeoutException, httpx.RemoteProtocolError))
RetryIfExceptionType(outcome) ==
    outcome \in {"404", "429", "503", "ConnectError", "TimeoutException",
                 "RemoteProtocolError"}

\* a stop after two attempts
StopAfterTwoAttempts(attempt_number) == attempt_number >= MaxAttempts - 1

\* http_utils.py 39: stop_after_attempt(3)
StopAfterAttempt(attempt_number) == attempt_number >= MaxAttempts

NoFetch == [pc |-> "idle", log |-> <<>>, sleeps |-> 0, error |-> ""]

\* the wrapped function is called
FetchCall ==
    /\ http.pc = "idle"
    /\ http' = [http EXCEPT !.pc = "attempt"]
    /\ UNCHANGED <<cadastre, ruian, geocoded, geo, nominatim, discovery, pager, sem, reas, remax, browser>>
    /\ UNCHANGED <<config, clock, listings, photos, call, scrape_jobs, runner,
                   adapter>>

\* http_utils.py 30-43: one attempt; on an exception tenacity re-raises it
\* when its type is not retried or when the stop is reached (reraise=True),
\* and waits otherwise
FetchAttempt(outcome) ==
    /\ http.pc = "attempt"
    /\ LET log == Append(http.log, outcome) IN
       http' = IF outcome = "ok"
               THEN [http EXCEPT !.pc = "returned", !.log = log]
               ELSE IF ~RetryIfExceptionType(outcome) \/ StopAfterAttempt(Len(log))
               THEN [http EXCEPT !.pc = "raised", !.log = log, !.error = outcome]
               ELSE [http EXCEPT !.pc = "wait", !.log = log]
    /\ UNCHANGED <<cadastre, ruian, geocoded, geo, nominatim, discovery, pager, sem, reas, remax, browser>>
    /\ UNCHANGED <<config, clock, listings, photos, call, scrape_jobs, runner,
                   adapter>>

\* http_utils.py 40: wait_exponential(multiplier=1, min=2, max=10), then the
\* next attempt
FetchBackoff ==
    /\ http.pc = "wait"
    /\ http' = [http EXCEPT !.pc = "attempt", !.sleeps = @ + 1]
    /\ UNCHANGED <<cadastre, ruian, geocoded, geo, nominatim, discovery, pager, sem, reas, remax, browser>>
    /\ UNCHANGED <<config, clock, listings, photos, call, scrape_jobs, runner,
                   adapter>>

-----------------------------------------------------------------------------
(* bulk_ruian_lookup (ruian_service.py 127-207)                            *)

FetchStatus == {"pending", "found", "not_found", "error", "manual"}

\* lookup_ruian_address returns one of these (ruian_service.py 36-124)
LookupStatus == {"found", "not_found", "error"}

NoStats == [total |-> 0, found |-> 0, not_found |-> 0, error |-> 0, skipped |-> 0]

NoRuian ==
    [pc |-> "idle", overwrite_not_found |-> FALSE, rows |-> <<>>,
     lookup |-> "", stats |-> NoStats, requests |-> 0, writes |-> 0]

IsActive(l) == \E r \in listings : r.id = l /\ r.is_active

\* ruian_service.py 146-149
StatusFilter(overwrite_not_found) ==
    IF overwrite_not_found THEN {"pending", "not_found", "error"}
    ELSE {"pending", "error"}

\* ruian_service.py 151-165: the active listings without a cadastre row
\* whose fetch_status is outside the filter, LIMIT batch_size
RuianRows(overwrite_not_found, batch_size) ==
    LET wanted(l) ==
            /\ IsActive(l)
            /\ ~(cadastre[l] # "none"
                  /\ cadastre[l] \notin StatusFilter(overwrite_not_found))
        all == SelectSeq([l \in ListingIds |-> l], wanted)
    IN SubSeq(all, 1, IF batch_size < Len(all) THEN batch_size ELSE Len(all))

\* ruian_service.py 143-168: the batch is selected
RuianSelect(p, overwrite_not_found, batch_size) ==
    /\ ruian[p].pc = "idle"
    /\ LET rows == RuianRows(overwrite_not_found, batch_size) IN
       ruian' = [ruian EXCEPT ![p] =
            [NoRuian EXCEPT !.pc = IF rows = <<>> THEN "done" ELSE "lookup",
                            !.overwrite_not_found = overwrite_not_found,
                            !.rows = rows,
                            !.stats = [NoStats EXCEPT !.total = Len(rows)]]]
    /\ UNCHANGED <<http, cadastre, geocoded, geo, nominatim, discovery, pager, sem, reas, remax, browser>>
    /\ UNCHANGED <<config, clock, listings, photos, call, scrape_jobs, runner,
                   adapter>>

\* ruian_service.py 170-175: lookup_ruian_address sends its request and
\* returns a result with fetch_status found, not_found or error
RuianLookup(p, status) ==
    /\ ruian[p].pc = "lookup"
    /\ ruian' = [ruian EXCEPT ![p].pc = "write", ![p].lookup = status,
                              ![p].requests = @ + 1]
    /\ UNCHANGED <<http, cadastre, geocoded, geo, nominatim, discovery, pager, sem, reas, remax, browser>>
    /\ UNCHANGED <<config, clock, listings, photos, call, scrape_jobs, runner,
                   adapter>>

\* ruian_service.py 178-201: INSERT ... ON CONFLICT (listing_id) DO UPDATE,
\* and the count of the status
RuianWrite(p) ==
    /\ ruian[p].pc = "write"
    /\ cadastre' = [cadastre EXCEPT ![Head(ruian[p].rows)] = ruian[p].lookup]
    /\ ruian' = [ruian EXCEPT ![p].pc = "sleep",
                              ![p].stats[ruian[p].lookup] = @ + 1,
                              ![p].writes = @ + 1]
    /\ UNCHANGED <<http, geocoded, geo, nominatim, discovery, pager, sem, reas, remax, browser>>
    /\ UNCHANGED <<config, clock, listings, photos, call, scrape_jobs, runner,
                   adapter>>

\* ruian_service.py 203-207: sleep(1.0), then the next row or the return
RuianSleep(p) ==
    /\ ruian[p].pc = "sleep"
    /\ ruian' = [ruian EXCEPT
            ![p].pc = IF Tail(ruian[p].rows) = <<>> THEN "done" ELSE "lookup",
            ![p].rows = Tail(ruian[p].rows)]
    /\ UNCHANGED <<http, cadastre, geocoded, geo, nominatim, discovery, pager, sem, reas, remax, browser>>
    /\ UNCHANGED <<config, clock, listings, photos, call, scrape_jobs, runner,
                   adapter>>

\* A human overrides the cadastre data of listing l: the row gets
\* fetch_status = manual.
HumanSetsManual(l) ==
    /\ cadastre[l] # "manual"
    /\ cadastre' = [cadastre EXCEPT ![l] = "manual"]
    /\ UNCHANGED <<http, ruian, geocoded, geo, nominatim, discovery, pager, sem, reas, remax, browser>>
    /\ UNCHANGED <<config, clock, listings, photos, call, scrape_jobs, runner,
                   adapter>>

-----------------------------------------------------------------------------
(* Geocoding (geocoding.py): geocode_address, geocode_listing_location and *)
(* bulk_geocode, and the endpoints of main.py 293-314                      *)

\* geocoding.py 74-80: the attempts of geocode_listing_location for a
\* listing with a district and without a municipality
GeoQueries == <<"location_text", "district">>

NotGeocoded == [latitude |-> Null, outcome |-> "none"]

first_seen_at(l) == (CHOOSE r \in listings : r.id = l).first_seen_at

\* geocoding.py 120: ORDER BY first_seen_at DESC (rows of equal time in
\* the order of their ids)
ByFirstSeenDesc ==
    LET before(m, l) == \/ first_seen_at(m) > first_seen_at(l)
                        \/ first_seen_at(m) = first_seen_at(l) /\ m < l
        rank(l) == Cardinality({m \in ListingIds : before(m, l)}) + 1
    IN [i \in 1..NumListings |-> CHOOSE l \in ListingIds : rank(l) = i]

NoGeo ==
    [kind |-> "", pc |-> "idle", rows |-> <<>>, queries |-> <<>>,
     success_count |-> 0, requests |-> 0, writes |-> 0]

NoRequests == [inflight |-> {}, sent |-> 0, slept |-> FALSE]

\* geocoding.py 112-122: the active listings without latitude,
\* ORDER BY first_seen_at DESC LIMIT batch_size
GeoRows(batch_size) ==
    LET wanted(l) == IsActive(l) /\ geocoded[l].latitude = Null
        all == SelectSeq(ByFirstSeenDesc, wanted)
    IN SubSeq(all, 1, IF batch_size < Len(all) THEN batch_size ELSE Len(all))

\* main.py 293-304, geocoding.py 96-130: POST /v1/geocode/bulk starts
\* bulk_geocode in the background; the batch is selected
GeoBulkSelect(g, batch_size) ==
    /\ geo[g].pc = "idle"
    /\ LET rows == GeoRows(batch_size) IN
       geo' = [geo EXCEPT ![g] =
            [NoGeo EXCEPT !.kind = "bulk",
                          !.pc = IF rows = <<>> THEN "done" ELSE "send",
                          !.rows = rows,
                          !.queries = IF rows = <<>> THEN <<>> ELSE GeoQueries]]
    /\ UNCHANGED <<http, cadastre, ruian, geocoded, nominatim, discovery, pager, sem, reas, remax, browser>>
    /\ UNCHANGED <<config, clock, listings, photos, call, scrape_jobs, runner,
                   adapter>>

\* main.py 307-314: GET /v1/geocode/single calls geocode_address
GeoSingle(g) ==
    /\ geo[g].pc = "idle"
    /\ geo' = [geo EXCEPT ![g] =
            [NoGeo EXCEPT !.kind = "single", !.pc = "send",
                          !.queries = <<"address">>]]
    /\ UNCHANGED <<http, cadastre, ruian, geocoded, nominatim, discovery, pager, sem, reas, remax, browser>>
    /\ UNCHANGED <<config, clock, listings, photos, call, scrape_jobs, runner,
                   adapter>>

\* geocoding.py 43-45: geocode_address sends its request
GeoSend(g) ==
    /\ geo[g].pc = "send"
    /\ geo' = [geo EXCEPT ![g].pc = "inflight", ![g].requests = @ + 1]
    /\ nominatim' = [inflight |-> nominatim.inflight \cup {g},
                     sent |-> nominatim.sent + 1,
                     slept |-> FALSE]
    /\ UNCHANGED <<http, cadastre, ruian, geocoded, discovery, pager, sem, reas, remax, browser>>
    /\ UNCHANGED <<config, clock, listings, photos, call, scrape_jobs, runner,
                   adapter>>

\* geocoding.py 45-60, 85-87, main.py 310-314: the response; found is
\* whether geocode_address returns coordinates (None also on an exception).
\* geocode_listing_location returns coordinates at once.
GeoReceive(g, found) ==
    /\ geo[g].pc = "inflight"
    /\ nominatim' = [nominatim EXCEPT !.inflight = @ \ {g}]
    /\ geo' = [geo EXCEPT ![g].pc =
            IF geo[g].kind = "single" THEN "done"
            ELSE IF found THEN "update" ELSE "between"]
    /\ UNCHANGED <<http, cadastre, ruian, geocoded, discovery, pager, sem, reas, remax, browser>>
    /\ UNCHANGED <<config, clock, listings, photos, call, scrape_jobs, runner,
                   adapter>>

\* geocoding.py 89-93: sleep(_RATE_LIMIT_DELAY) after an attempt without
\* result, then the next attempt; after the last one the function returns
\* None and bulk_geocode writes nothing
GeoBetween(g) ==
    /\ geo[g].pc = "between"
    /\ nominatim' = [nominatim EXCEPT !.slept = TRUE]
    /\ LET last == Tail(geo[g].queries) = <<>> IN
       /\ geo' = [geo EXCEPT ![g].pc = IF last THEN "pause" ELSE "send",
                             ![g].queries = Tail(geo[g].queries)]
       /\ geocoded' = IF last
                      THEN [geocoded EXCEPT ![Head(geo[g].rows)].outcome = "failed"]
                      ELSE geocoded
    /\ UNCHANGED <<http, cadastre, ruian, discovery, pager, sem, reas, remax, browser>>
    /\ UNCHANGED <<config, clock, listings, photos, call, scrape_jobs, runner,
                   adapter>>

\* geocoding.py 139-154: UPDATE listings SET latitude, longitude ...
GeoUpdate(g) ==
    /\ geo[g].pc = "update"
    /\ geocoded' = [geocoded EXCEPT ![Head(geo[g].rows)] =
                        [latitude |-> <<1>>, outcome |-> "found"]]
    /\ geo' = [geo EXCEPT ![g].pc = "pause", ![g].success_count = @ + 1,
                          ![g].writes = @ + 1]
    /\ UNCHANGED <<http, cadastre, ruian, nominatim, discovery, pager, sem, reas, remax, browser>>
    /\ UNCHANGED <<config, clock, listings, photos, call, scrape_jobs, runner,
                   adapter>>

\* geocoding.py 156-160: sleep(_RATE_LIMIT_DELAY), then the next row or the
\* return of success_count
GeoPause(g) ==
    /\ geo[g].pc = "pause"
    /\ nominatim' = [nominatim EXCEPT !.slept = TRUE]
    /\ LET rest == Tail(geo[g].rows) IN
       geo' = [geo EXCEPT ![g].pc = IF rest = <<>> THEN "done" ELSE "send",
                          ![g].rows = rest,
                          ![g].queries = IF rest = <<>> THEN <<>> ELSE GeoQueries]
    /\ UNCHANGED <<http, cadastre, ruian, geocoded, discovery, pager, sem, reas, remax, browser>>
    /\ UNCHANGED <<config, clock, listings, photos, call, scrape_jobs, runner,
                   adapter>>

\* no adapter has met a discovery error
NoDiscovery == [j \in Jobs |-> [s \in Sources |-> FALSE]]

-----------------------------------------------------------------------------
(* The page loop of an adapter run over one search configuration           *)
(* (sreality_scraper.py 93-169, remax_scraper.py 71-155). pager.fetches    *)
(* counts the index-page fetches made (history).                           *)

IncrementalPages == 5
FullPagesSreality == 999
FullPagesRemax == 100

\* the fetches the model follows in one run
MaxFetches == 7

\* sreality_scraper.py 94, remax_scraper.py 81
max_pages(source_code, full_rescan) ==
    IF ~full_rescan THEN IncrementalPages
    ELSE IF source_code = "SREALITY" THEN FullPagesSreality ELSE FullPagesRemax

\* what the fetch of an index page gives: items with more pages to come,
\* items of the last page, no items, HTTP 429 (after the retries of
\* http_retry), or another error
PageResponses == {"items", "last", "empty", "429", "error"}

NoPager == [pc |-> "idle", source_code |-> "", max_pages |-> 0, page |-> 0,
            fetches |-> 0]

\* sreality_scraper.py 93-119, remax_scraper.py 71-106: run() sets the cap
\* and the loop starts at page 1
PagerRun(source_code, full_rescan) ==
    /\ pager.pc = "idle"
    /\ pager' = [NoPager EXCEPT !.pc = "loop", !.source_code = source_code,
                                !.max_pages = max_pages(source_code, full_rescan),
                                !.page = 1]
    /\ UNCHANGED <<http, cadastre, ruian, geocoded, geo, nominatim, discovery, sem, reas, remax, browser>>
    /\ UNCHANGED <<config, clock, listings, photos, call, scrape_jobs, runner,
                   adapter>>

\* The page the loop fetches next, 0 when it breaks.
\* sreality_scraper.py 126-164: page += 1 after a page with items that is
\* not the last one; on HTTP 429 sleep(30) and continue with the same
\* page; break otherwise. remax_scraper.py 121-151: page += 1 after a page
\* with items, break on no items and on every exception.
PageAfter(source_code, page, response) ==
    IF response = "items" THEN page + 1
    ELSE IF response = "429" /\ source_code = "SREALITY" THEN page
    ELSE 0

\* sreality_scraper.py 119-164, remax_scraper.py 107-151: one pass of
\* while page <= max_pages
PagerFetch(response) ==
    /\ pager.pc = "loop"
    /\ pager.fetches < MaxFetches
    /\ response = "last" => pager.source_code = "SREALITY"
    /\ LET next == PageAfter(pager.source_code, pager.page, response) IN
       pager' = [pager EXCEPT
            !.fetches = @ + 1,
            !.page = IF next = 0 THEN @ ELSE next,
            !.pc = IF next = 0 \/ next > pager.max_pages THEN "done" ELSE "loop"]
    /\ UNCHANGED <<http, cadastre, ruian, geocoded, geo, nominatim, discovery, sem, reas, remax, browser>>
    /\ UNCHANGED <<config, clock, listings, photos, call, scrape_jobs, runner,
                   adapter>>

-----------------------------------------------------------------------------
(* The detail fetches of one page of an adapter run                        *)
(* (sreality_scraper.py 212-322, reas_scraper.py 248-303): one task per    *)
(* record, all created at once, each fetching under  async with semaphore. *)
(* sem.value is the value of the asyncio.Semaphore and sem.waiters its     *)
(* queue of waiting tasks, first come first.                               *)

NumDetailTasks == 4

\* detail_fetch_concurrency (sreality_scraper.py 81, 117) and
\* detail_concurrency (reas_scraper.py 98, 250)
detail_fetch_concurrency == 2

DetailTasks == 1..NumDetailTasks

NoSem == [value |-> detail_fetch_concurrency,
          waiters |-> <<>>,
          task |-> [t \in DetailTasks |-> "created"]]

FetchingTasks == {t \in DetailTasks : sem.task[t] = "fetching"}

\* sreality_scraper.py 316-318, reas_scraper.py 284: the task reaches
\* async with semaphore; acquire() takes a permit when the semaphore is
\* not locked (a permit is free and nobody waits), else the task waits
DetailAcquire(t) ==
    /\ sem.task[t] = "created"
    /\ sem' = IF sem.value > 0 /\ sem.waiters = <<>>
              THEN [sem EXCEPT !.value = @ - 1, !.task[t] = "fetching"]
              ELSE [sem EXCEPT !.waiters = Append(@, t), !.task[t] = "waiting"]
    /\ UNCHANGED <<http, cadastre, ruian, geocoded, geo, nominatim, discovery, pager, reas, remax, browser>>
    /\ UNCHANGED <<config, clock, listings, photos, call, scrape_jobs, runner,
                   adapter>>

\* an exit of the with block that keeps the permit
SemaphoreKept(s) == s

\* __aexit__ of  async with semaphore: release() gives the permit to the
\* first waiting task, or back to the semaphore when nobody waits
SemaphoreRelease(s) ==
    IF s.waiters = <<>>
    THEN [s EXCEPT !.value = @ + 1]
    ELSE [s EXCEPT !.waiters = Tail(@), !.task[Head(s.waiters)] = "fetching"]

\* sreality_scraper.py 316-318, 197-210; reas_scraper.py 284-303: the
\* fetch (and in REAS the save) under the permit ends, returning (ok) or
\* raising; either way the with block is left and the permit released
DetailFetchEnds(t, ok) ==
    /\ sem.task[t] = "fetching"
    /\ sem' = SemaphoreRelease(
                 [sem EXCEPT !.task[t] = IF ok THEN "returned" ELSE "raised"])
    /\ UNCHANGED <<http, cadastre, ruian, geocoded, geo, nominatim, discovery, pager, reas, remax, browser>>
    /\ UNCHANGED <<config, clock, listings, photos, call, scrape_jobs, runner,
                   adapter>>

-----------------------------------------------------------------------------
(* ReasScraper._scrape_category (reas_scraper.py 155-272) for one          *)
(* category. reas.fetches counts the page fetches after the first one and  *)
(* reas.passed the records passed to upsert_listing (history).             *)

PAGE_LIMIT == 10
MAX_EXPECTED_CATEGORY_COUNT == 500

\* the counts the first page reports
CategoryCounts == {0, 5, 20, 500, 501, 1000}

\* the records of one page that reach _save_listing
AdsPerPage == {0, 1}

NoReas == [pc |-> "idle", full_rescan |-> FALSE, use_api_pagination |-> FALSE,
           total_count |-> 0, max_pages |-> 0, page_num |-> 0,
           fetches |-> 0, passed |-> 0, result |-> <<>>]

\* math.ceil(total_count / PAGE_LIMIT)
CeilPages(total_count) == (total_count + PAGE_LIMIT - 1) \div PAGE_LIMIT

\* reas_scraper.py 179
total_pages(total_count) ==
    IF CeilPages(total_count) > 1 THEN CeilPages(total_count) ELSE 1

\* a guard that also skips a count equal to the limit
ReachesExpectedCount(total_count) == total_count >= MAX_EXPECTED_CATEGORY_COUNT

\* reas_scraper.py 188
ExceedsExpectedCount(total_count) == total_count > MAX_EXPECTED_CATEGORY_COUNT

\* reas_scraper.py 173-176: the first page gives no data
ReasFirstPageEmpty(full_rescan, has_build_id) ==
    /\ reas.pc = "idle"
    /\ reas' = [NoReas EXCEPT !.pc = "done", !.full_rescan = full_rescan,
                              !.result = <<0>>]
    /\ UNCHANGED <<http, cadastre, ruian, geocoded, geo, nominatim, discovery, pager, sem, remax, browser>>
    /\ UNCHANGED <<config, clock, listings, photos, call, scrape_jobs, runner,
                   adapter>>

\* reas_scraper.py 173-204: the first page reports total_count; the guard,
\* then use_api_pagination and max_pages
ReasFirstPage(full_rescan, has_build_id, total_count) ==
    /\ reas.pc = "idle"
    /\ has_build_id => full_rescan
    /\ reas' = IF ExceedsExpectedCount(total_count)
               THEN [NoReas EXCEPT !.pc = "done", !.full_rescan = full_rescan,
                                   !.total_count = total_count,
                                   !.result = <<0>>]
               ELSE [NoReas EXCEPT
                        !.pc = "pages", !.full_rescan = full_rescan,
                        !.use_api_pagination = full_rescan /\ has_build_id,
                        !.total_count = total_count,
                        !.max_pages = IF full_rescan THEN total_pages(total_count)
                                      ELSE 1,
                        !.page_num = 1]
    /\ UNCHANGED <<http, cadastre, ruian, geocoded, geo, nominatim, discovery, pager, sem, remax, browser>>
    /\ UNCHANGED <<config, clock, listings, photos, call, scrape_jobs, runner,
                   adapter>>

\* reas_scraper.py 204-270: one pass of the page loop. Page 1 is the first
\* page's data unless the API is used; the API giving no data breaks the
\* loop, an HTML page giving none is skipped; ads records of the page are
\* passed to _save_listing.
ReasPage(has_data, ads) ==
    /\ reas.pc = "pages"
    /\ LET fetched == ~(reas.page_num = 1 /\ ~reas.use_api_pagination)
           data == has_data \/ ~fetched
           stop == (reas.use_api_pagination /\ ~data)
                   \/ reas.page_num = reas.max_pages
           passed == reas.passed + (IF data THEN ads ELSE 0)
       IN reas' = [reas EXCEPT
                !.fetches = @ + (IF fetched THEN 1 ELSE 0),
                !.passed = passed,
                !.page_num = IF stop THEN @ ELSE @ + 1,
                !.pc = IF stop THEN "done" ELSE "pages",
                !.result = IF stop THEN <<passed>> ELSE @]
    /\ UNCHANGED <<http, cadastre, ruian, geocoded, geo, nominatim, discovery, pager, sem, remax, browser>>
    /\ UNCHANGED <<config, clock, listings, photos, call, scrape_jobs, runner,
                   adapter>>

-----------------------------------------------------------------------------
(* RemaxScraper.run over its search configurations                         *)
(* (remax_scraper.py 43-60, 71-155)                                        *)

\* len(SEARCH_CONFIGS)
NumSearchConfigs == 3

\* the most listings one configuration scrapes
MaxScraped == 3

NoRemax == [pc |-> "idle", config |-> 0, scraped_count |-> 0, total |-> 0]

\* remax_scraper.py 68, 81-83: a new scraper has scraped_count = 0; run()
\* sets total = 0 and starts the loop over SEARCH_CONFIGS
RemaxRun ==
    /\ remax.pc = "idle"
    /\ remax' = [NoRemax EXCEPT !.pc = "scrape", !.config = 1]
    /\ UNCHANGED <<http, cadastre, ruian, geocoded, geo, nominatim, discovery, pager, sem, reas, browser>>
    /\ UNCHANGED <<config, clock, listings, photos, call, scrape_jobs, runner,
                   adapter>>

\* remax_scraper.py 84-86, 88-155: scrape of one configuration counts
\* scraped listings into self.scraped_count and returns self.scraped_count;
\* run adds the returned count to total, and returns total after the last
\* configuration
RemaxScrape(scraped) ==
    /\ remax.pc = "scrape"
    /\ LET count == remax.scraped_count + scraped IN
       remax' = [remax EXCEPT
            !.scraped_count = count,
            !.total = @ + count,
            !.config = IF @ = NumSearchConfigs THEN @ ELSE @ + 1,
            !.pc = IF remax.config = NumSearchConfigs THEN "done" ELSE "scrape"]
    /\ UNCHANGED <<http, cadastre, ruian, geocoded, geo, nominatim, discovery, pager, sem, reas, browser>>
    /\ UNCHANGED <<config, clock, listings, photos, call, scrape_jobs, runner,
                   adapter>>

-----------------------------------------------------------------------------
(* The browser singleton (browser.py 42-105, 205-237). Caller k of         *)
(* get_browser_manager that finds no manager creates manager k.            *)
(* browser.manager is the global _browser_manager (0: None),               *)
(* browser.started[m] whether _browser of manager m is set, and            *)
(* browser.launched the number of browsers launched since the last         *)
(* close_browser_manager (history).                                        *)

NumCallers == 3

Callers == 1..NumCallers

NoBrowser == [manager |-> 0,
              started |-> [m \in Callers |-> FALSE],
              launched |-> 0,
              caller |-> [k \in Callers |-> [pc |-> "idle", got |-> 0]]]

\* browser.py 218-228, 42-49: the caller reads the global; when it is None
\* it creates the manager, stores it in the global and awaits start(),
\* which awaits Playwright; else it returns the manager it read
GetBrowserManager(k) ==
    /\ browser.caller[k].pc = "idle"
    /\ browser' =
         IF browser.manager = 0
         THEN [browser EXCEPT !.manager = k,
                              !.caller[k] = [pc |-> "starting", got |-> k]]
         ELSE [browser EXCEPT
                  !.caller[k] = [pc |-> "returned", got |-> browser.manager]]
    /\ UNCHANGED <<http, cadastre, ruian, geocoded, geo, nominatim, discovery, pager, sem, reas, remax>>
    /\ UNCHANGED <<config, clock, listings, photos, call, scrape_jobs, runner,
                   adapter>>

\* browser.py 49-64, 228: chromium.launch returns, _browser is set, and
\* get_browser_manager returns the manager
BrowserStarted(k) ==
    /\ browser.caller[k].pc = "starting"
    /\ browser' = [browser EXCEPT !.started[k] = TRUE,
                                  !.launched = @ + 1,
                                  !.caller[k].pc = "returned"]
    /\ UNCHANGED <<http, cadastre, ruian, geocoded, geo, nominatim, discovery, pager, sem, reas, remax>>
    /\ UNCHANGED <<config, clock, listings, photos, call, scrape_jobs, runner,
                   adapter>>

\* browser.py 88-93: get_context on the manager the caller got raises
\* RuntimeError('Browser not started') when _browser is None
GetContext(k) ==
    /\ browser.caller[k].pc = "returned"
    /\ browser' = [browser EXCEPT !.caller[k].pc =
            IF browser.started[browser.caller[k].got] THEN "context" ELSE "raised"]
    /\ UNCHANGED <<http, cadastre, ruian, geocoded, geo, nominatim, discovery, pager, sem, reas, remax>>
    /\ UNCHANGED <<config, clock, listings, photos, call, scrape_jobs, runner,
                   adapter>>

\* browser.py 231-237, 66-76: close_browser_manager closes the browser of
\* the global manager and sets the global to None
CloseBrowserManager ==
    /\ browser.manager # 0
    /\ browser' = [browser EXCEPT !.started[browser.manager] = FALSE,
                                  !.manager = 0,
                                  !.launched = 0]
    /\ UNCHANGED <<http, cadastre, ruian, geocoded, geo, nominatim, discovery, pager, sem, reas, remax>>
    /\ UNCHANGED <<config, clock, listings, photos, call, scrape_jobs, runner,
                   adapter>>

\* main.py 293-304: POST /v1/geocode/bulk is called again after the run
\* has ended; the history of the requests starts again with it
GeoBulkAgain(g) ==
    /\ geo[g].pc = "done"
    /\ geo[g].kind = "bulk"
    /\ nominatim.inflight = {}
    /\ geo' = [geo EXCEPT ![g] = NoGeo]
    /\ nominatim' = NoRequests
    /\ UNCHANGED <<http, cadastre, ruian, geocoded, discovery, pager, sem, reas, remax, browser>>
    /\ UNCHANGED <<config, clock, listings, photos, call, scrape_jobs, runner,
                   adapter>>

InitServices ==
    /\ http = NoFetch
    /\ cadastre = [l \in ListingIds |-> "none"]
    /\ ruian = [p \in Runs |-> NoRuian]
    /\ geocoded = [l \in ListingIds |-> NotGeocoded]
    /\ geo = [g \in Runs |-> NoGeo]
    /\ nominatim = NoRequests
    /\ discovery = NoDiscovery
    /\ pager = NoPager
    /\ sem = NoSem
    /\ reas = NoReas
    /\ remax = NoRemax
    /\ browser = NoBrowser

-----------------------------------------------------------------------------
(* The initial state *)

NoData ==
    [property_type |-> "", offer_type |-> "", price |-> Null,
     location_text |-> <<>>, description_len |-> 0, photos |-> <<>>]

FreeCall ==
    [pc |-> "free", job |-> 0, src |-> "", ext |-> "", data |-> NoData,
     now |-> 0, result |-> Null, outcome |-> "", snap |-> {}, del |-> {},
     seq |-> 0]

NoJob ==
    [status |-> "", full_rescan |-> FALSE, source_codes |-> <<>>,
     started_at |-> Null, finished_at |-> Null, error_message |-> "",
     listings_found |-> Null]

NoRunner ==
    [pc |-> "new", request |-> <<>>, full_rescan |-> FALSE,
     scrape_started_at |-> 0, todo |-> <<>>, seq_at_start |-> 0]

Init ==
    /\ InitServices
    /\ config \in Configs
    /\ clock = 1
    /\ listings = {}
    /\ photos = {}
    /\ call = [c \in Calls |-> FreeCall]
    /\ scrape_jobs = [j \in Jobs |-> NoJob]
    /\ runner = [j \in Jobs |-> NoRunner]
    /\ adapter = [j \in Jobs |-> [s \in Sources |-> "none"]]

-----------------------------------------------------------------------------
(* upsert_listing (database.py 91-204), called by the adapter of job j for *)
(* source s                                                                *)

\* History: call[c].seq is the position of the statement of call c among the
\* upsert statements the database has executed, and runner[j].seq_at_start
\* the number of them executed before job j took its scan-start time.
Executed == Cardinality({c \in Calls : call[c].seq # 0})

InFlight(j, s) ==
    {c \in Calls : call[c].job = j /\ call[c].src = s
                   /\ call[c].pc \notin {"free", "done"}}

\* the external ids seen so far and the first one not yet seen
NextExtIds ==
    LET used == {call[c].ext : c \in Calls} IN
    {ExtOrder[i] : i \in {k \in 1..Len(ExtOrder) :
                            \A m \in 1..(k - 1) : ExtOrder[m] \in used}}

Finished(c, outcome) ==
    [call[c] EXCEPT !.pc = "done", !.outcome = outcome, !.snap = {}, !.del = {}]

\* database.py 110-149: the filter, the source lookup and  now = utcnow()
CallStart(c, j, s, data, ext) ==
    /\ adapter[j][s] = "running"
    /\ call[c].pc = "free"
    /\ \A c2 \in Calls : c2 < c => call[c2].pc # "free"
    /\ s = "REMAX" => InFlight(j, s) = {}
    /\  LET started == [call[c] EXCEPT !.job = j, !.src = s, !.ext = ext,
                                        !.data = data]
         IN
         IF ~should_include_listing(config, data)[1]
         THEN /\ call' = [call EXCEPT ![c] =
                            [started EXCEPT !.pc = "done", !.outcome = "filtered"]]
              /\ clock' = clock
         ELSE IF s \notin DOMAIN SourceTable
         THEN /\ call' = [call EXCEPT ![c] =
                            [started EXCEPT !.pc = "done", !.outcome = "raised"]]
              /\ clock' = clock
         ELSE /\ call' = [call EXCEPT ![c] =
                            [started EXCEPT !.pc = "stmt", !.now = clock]]
              /\ clock' = clock + 1
    /\ UNCHANGED <<services, config, listings, photos, scrape_jobs, runner, adapter>>

\* database.py 151-204: the statement runs in the database; without photos
\* the call returns the id
UpsertStatement(c) ==
    /\ call[c].pc = "stmt"
    /\ LET excluded == ListingRow(c, call[c].src, call[c].ext, call[c].data,
                                  call[c].now)
           result == ReturningId(UpsertRows(listings, excluded), excluded)
           returned == [call[c] EXCEPT !.result = <<result>>, !.seq = Executed + 1]
       IN
       /\ listings' = UpsertRows(listings, excluded)
       /\ call' = [call EXCEPT ![c] =
                     IF call[c].data.photos # <<>>
                     THEN [returned EXCEPT !.pc = "delete"]
                     ELSE [returned EXCEPT !.pc = "done", !.outcome = "saved"]]
    /\ UNCHANGED <<services, config, clock, photos, scrape_jobs, runner, adapter>>

\* database.py 151-194: acquiring the connection or the statement raises
UpsertFails(c) ==
    /\ call[c].pc = "stmt"
    /\ call' = [call EXCEPT ![c] = Finished(c, "raised")]
    /\ UNCHANGED <<services, config, clock, listings, photos, scrape_jobs, runner, adapter>>

\* database.py 213-218: BEGIN; the DELETE takes its snapshot of the
\* committed photo rows of the listing
PhotosDeleteScan(c) ==
    /\ call[c].pc = "delete"
    /\ call' = [call EXCEPT ![c].pc = "locking",
                            ![c].snap = PhotosOf(photos, call[c].result[1])]
    /\ UNCHANGED <<services, config, clock, listings, photos, scrape_jobs, runner, adapter>>

\* database.py 215-218: the DELETE waits for the transactions that hold a
\* row of its snapshot, then deletes the rows of the snapshot that are left
PhotosDeleteLock(c) ==
    /\ call[c].pc = "locking"
    /\ \A c2 \in Calls \ {c} : call[c2].del \cap call[c].snap = {}
    /\ call' = [call EXCEPT ![c].pc = "insert",
                            ![c].del = call[c].snap \cap photos]
    /\ UNCHANGED <<services, config, clock, listings, photos, scrape_jobs, runner, adapter>>

\* database.py 221-237, 203-204: the INSERTs, COMMIT, and the call returns
PhotosInsertCommit(c) ==
    /\ call[c].pc = "insert"
    /\ photos' = (photos \ call[c].del)
                    \cup NewPhotoRows(c, call[c].result[1], call[c].data.photos)
    /\ call' = [call EXCEPT ![c] = Finished(c, "saved")]
    /\ UNCHANGED <<services, config, clock, listings, scrape_jobs, runner, adapter>>

\* database.py 213-235: a statement of the transaction raises: ROLLBACK, and
\* the exception leaves upsert_listing
PhotosRollback(c) ==
    /\ call[c].pc \in {"delete", "locking", "insert"}
    /\ call' = [call EXCEPT ![c] = Finished(c, "raised")]
    /\ UNCHANGED <<services, config, clock, listings, photos, scrape_jobs, runner, adapter>>

-----------------------------------------------------------------------------
(* The adapters: scraper.run(full_rescan) of job j for source s            *)

\* sreality_scraper.py 154-159: the page fetch ended in HTTP 429 (after the
\* retries of http_retry); the loop sleeps and fetches the same page again
AdapterRateLimited(j) ==
    /\ adapter[j]["SREALITY"] = "running"
    /\ InFlight(j, "SREALITY") = {}
    /\ adapter' = [adapter EXCEPT ![j]["SREALITY"] = "backoff"]
    /\ UNCHANGED <<services, config, clock, listings, photos, call, scrape_jobs, runner>>

\* sreality_scraper.py 158-159: sleep(30); continue
AdapterBackoffDone(j) ==
    /\ adapter[j]["SREALITY"] = "backoff"
    /\ adapter' = [adapter EXCEPT ![j]["SREALITY"] = "running"]
    /\ UNCHANGED <<services, config, clock, listings, photos, call, scrape_jobs, runner>>

\* a run() that returns while one of its upsert_listing calls is pending
AdapterReturnsEarly(j, s) ==
    /\ adapter[j][s] = "running"
    /\ adapter' = [adapter EXCEPT ![j][s] = "returned"]
    /\ UNCHANGED <<services, config, clock, listings, photos, call, scrape_jobs, runner>>

\* sreality_scraper.py 126-133, 147-149, 160-169; remax_scraper.py 121-155:
\* the page loop ends and run() returns its count
AdapterReturn(j, s) ==
    /\ adapter[j][s] = "running"
    /\ InFlight(j, s) = {}
    /\ adapter' = [adapter EXCEPT ![j][s] = "returned"]
    /\ UNCHANGED <<services, config, clock, listings, photos, call, scrape_jobs, runner>>

\* a page error that run() lets through to the runner
AdapterPageFetchRaises(j) ==
    /\ adapter[j]["REMAX"] = "running"
    /\ InFlight(j, "REMAX") = {}
    /\ adapter' = [adapter EXCEPT ![j]["REMAX"] = "raised"]
    /\ discovery' = [discovery EXCEPT ![j]["REMAX"] = TRUE]
    /\ UNCHANGED <<http, cadastre, ruian, geocoded, geo, nominatim, pager, sem, reas, remax, browser>>
    /\ UNCHANGED <<config, clock, listings, photos, call, scrape_jobs, runner>>

\* remax_scraper.py 107-151: fetching or parsing a list page raises (the
\* host is unreachable, http_retry gave up); the except clause breaks out
\* of the page loop and scrape returns the count reached so far
AdapterPageFetchFails(j) ==
    /\ adapter[j]["REMAX"] = "running"
    /\ InFlight(j, "REMAX") = {}
    /\ adapter' = [adapter EXCEPT ![j]["REMAX"] = "returned"]
    /\ discovery' = [discovery EXCEPT ![j]["REMAX"] = TRUE]
    /\ UNCHANGED <<http, cadastre, ruian, geocoded, geo, nominatim, pager, sem, reas, remax, browser>>
    /\ UNCHANGED <<config, clock, listings, photos, call, scrape_jobs, runner>>

\* the upsert_listing calls the adapter of job j for source s has made
CallsOf(j, s) == {c \in Calls : call[c].job = j /\ call[c].src = s}

\* The count run() returns (one search configuration per adapter).
\* remax_scraper.py 136-137: scraped_count += 1 after every _save_listing
\* that did not raise, whatever upsert_listing returned.
\* sreality_scraper.py 239-245, 261-273: _process_estate_with_semaphore
\* returns True or False, never None, and every result that is not None
\* is counted.
AdapterCount(j, s) ==
    IF s = "REMAX"
    THEN Cardinality({c \in CallsOf(j, s) :
                        call[c].pc = "done" /\ call[c].outcome # "raised"})
    ELSE Cardinality({c \in CallsOf(j, s) : call[c].pc = "done"})

\* runner.py 181, 185-186: run() raises
AdapterRaise(j, s) ==
    /\ adapter[j][s] = "running"
    /\ InFlight(j, s) = {}
    /\ adapter' = [adapter EXCEPT ![j][s] = "raised"]
    /\ UNCHANGED <<services, config, clock, listings, photos, call, scrape_jobs, runner>>

-----------------------------------------------------------------------------
(* The job runner *)

\* main.py 199-210 and database.py 243-268: the job row is created Queued
\* and run_scrape_job is handed the job
CreateJob(j) ==
    /\ runner[j].pc = "new"
    /\ \A j2 \in Jobs : j2 < j => runner[j2].pc # "new"
    /\ \E codes \in RequestSources, full \in BOOLEAN :
         /\ scrape_jobs' = [scrape_jobs EXCEPT ![j] =
                [NoJob EXCEPT !.status = "Queued", !.full_rescan = full,
                              !.source_codes = codes]]
         /\ runner' = [runner EXCEPT ![j] =
                [NoRunner EXCEPT !.pc = "queued", !.request = codes,
                                 !.full_rescan = full]]
    /\ UNCHANGED <<services, config, clock, listings, photos, call, adapter>>

\* runner.py 51-181: the job is marked Running, the tasks are built, the
\* scan-start time is taken and the adapters are started
RunnerStart(j) ==
    /\ runner[j].pc = "queued"
    /\ LET tasks == Tasks(runner[j].request) IN
       /\ scrape_jobs' = [scrape_jobs EXCEPT ![j].status = "Running",
                                             ![j].started_at = <<clock>>]
       /\ runner' = [runner EXCEPT
                ![j].pc = IF tasks = <<>> THEN "succeed" ELSE "gather",
                ![j].scrape_started_at = clock,
                ![j].seq_at_start = Executed]
       /\ adapter' = [adapter EXCEPT ![j] =
                [s \in Sources |-> IF s \in Range(tasks) THEN "running" ELSE "none"]]
    /\ UNCHANGED <<services, config, clock, listings, photos, call>>

\* runner.py 53-58, 216: the update raises
RunnerStartFails(j) ==
    /\ runner[j].pc = "queued"
    /\ runner' = [runner EXCEPT ![j].pc = "handler"]
    /\ UNCHANGED <<services, config, clock, listings, photos, call, scrape_jobs, adapter>>

\* runner.py 184-191: the sources the loop over the results sweeps
RECURSIVE SweepList(_, _, _)
SweepList(tasks, states, full_rescan) ==
    IF tasks = <<>> \/ ~full_rescan THEN <<>>
    ELSE IF states[Head(tasks)] = "returned"
         THEN <<Head(tasks)>> \o SweepList(Tail(tasks), states, full_rescan)
         ELSE SweepList(Tail(tasks), states, full_rescan)

\* a gather that propagates the exception of an adapter into the handler
RunnerGatherPropagates(j) ==
    /\ runner[j].pc = "gather"
    /\ \A s \in Range(Tasks(runner[j].request)) :
         adapter[j][s] \in {"returned", "raised"}
    /\ LET todo == SweepList(Tasks(runner[j].request), adapter[j],
                             runner[j].full_rescan)
       IN runner' = [runner EXCEPT
                ![j].pc = IF \E s \in Sources : adapter[j][s] = "raised"
                          THEN "handler"
                          ELSE IF todo = <<>> THEN "succeed" ELSE "sweep",
                ![j].todo = todo]
    /\ UNCHANGED <<services, config, clock, listings, photos, call, scrape_jobs, adapter>>

\* a runner that sweeps every scheduled source, whatever the mode and
\* whatever the adapter's result
RunnerGatherSweepsAll(j) ==
    /\ runner[j].pc = "gather"
    /\ \A s \in Range(Tasks(runner[j].request)) :
         adapter[j][s] \in {"returned", "raised"}
    /\ runner' = [runner EXCEPT ![j].pc = "sweep",
                                ![j].todo = Tasks(runner[j].request)]
    /\ UNCHANGED <<services, config, clock, listings, photos, call, scrape_jobs, adapter>>

\* runner.py 181-191: gather returns when every adapter has ended
RunnerGather(j) ==
    /\ runner[j].pc = "gather"
    /\ \A s \in Range(Tasks(runner[j].request)) :
         adapter[j][s] \in {"returned", "raised"}
    /\ LET todo == SweepList(Tasks(runner[j].request), adapter[j],
                             runner[j].full_rescan)
       IN runner' = [runner EXCEPT
                ![j].pc = IF todo = <<>> THEN "succeed" ELSE "sweep",
                ![j].todo = todo]
    /\ UNCHANGED <<services, config, clock, listings, photos, call, scrape_jobs, adapter>>

\* runner.py 183-188: total_scraped, the sum of the results of the adapters
\* that did not raise
RECURSIVE TotalScraped(_, _)
TotalScraped(j, tasks) ==
    IF tasks = <<>> THEN 0
    ELSE (IF adapter[j][Head(tasks)] = "returned"
          THEN AdapterCount(j, Head(tasks)) ELSE 0)
         + TotalScraped(j, Tail(tasks))

\* runner.py 191-194: deactivate_unseen_listings(source_name, scrape_started_at)
RunnerSweep(j) ==
    /\ runner[j].pc = "sweep"
    /\ listings' = DeactivateUnseen(listings, Head(runner[j].todo),
                                    runner[j].scrape_started_at)
    /\ runner' = [runner EXCEPT
            ![j].pc = IF Tail(runner[j].todo) = <<>> THEN "succeed" ELSE "sweep",
            ![j].todo = Tail(runner[j].todo)]
    /\ UNCHANGED <<services, config, clock, photos, call, scrape_jobs, adapter>>

\* runner.py 192, 216: the sweep raises
RunnerSweepFails(j) ==
    /\ runner[j].pc = "sweep"
    /\ runner' = [runner EXCEPT ![j].pc = "handler", ![j].todo = <<>>]
    /\ UNCHANGED <<services, config, clock, listings, photos, call, scrape_jobs, adapter>>

\* runner.py 198-214: the job is marked Succeeded
RunnerSucceed(j) ==
    /\ runner[j].pc = "succeed"
    /\ scrape_jobs' = [scrape_jobs EXCEPT
            ![j].status = "Succeeded",
            ![j].finished_at = <<clock>>,
            ![j].error_message = IF Tasks(runner[j].request) = <<>>
                                 THEN "No scrapers scheduled" ELSE @,
            ![j].listings_found =
                IF Tasks(runner[j].request) = <<>> THEN @
                ELSE <<TotalScraped(j, Tasks(runner[j].request))>>]
    /\ runner' = [runner EXCEPT ![j].pc = "done"]
    /\ UNCHANGED <<services, config, clock, listings, photos, call, adapter>>

\* an update that is applied and then raises: the handler then runs on a job
\* that is already Succeeded
RunnerSucceedAppliedAndFails(j) ==
    /\ runner[j].pc = "succeed"
    /\ scrape_jobs' = [scrape_jobs EXCEPT ![j].status = "Succeeded",
                                          ![j].finished_at = <<clock>>]
    /\ runner' = [runner EXCEPT ![j].pc = "handler"]
    /\ UNCHANGED <<services, config, clock, listings, photos, call, adapter>>

\* runner.py 199-214, 216: the update raises
RunnerSucceedFails(j) ==
    /\ runner[j].pc = "succeed"
    /\ runner' = [runner EXCEPT ![j].pc = "handler"]
    /\ UNCHANGED <<services, config, clock, listings, photos, call, scrape_jobs, adapter>>

\* a handler that marks the job Failed and leaves finished_at alone
RunnerFailWithoutFinishedAt(j) ==
    /\ runner[j].pc = "handler"
    /\ scrape_jobs' = [scrape_jobs EXCEPT ![j].status = "Failed",
                                          ![j].error_message = "exc"]
    /\ runner' = [runner EXCEPT ![j].pc = "done"]
    /\ UNCHANGED <<services, config, clock, listings, photos, call, adapter>>

\* runner.py 216-223: the handler marks the job Failed
RunnerFail(j) ==
    /\ runner[j].pc = "handler"
    /\ scrape_jobs' = [scrape_jobs EXCEPT ![j].status = "Failed",
                                          ![j].finished_at = <<clock>>,
                                          ![j].error_message = "exc"]
    /\ runner' = [runner EXCEPT ![j].pc = "done"]
    /\ UNCHANGED <<services, config, clock, listings, photos, call, adapter>>

\* runner.py 218-223: the update of the handler raises, and the exception
\* leaves run_scrape_job
RunnerFailFails(j) ==
    /\ runner[j].pc = "handler"
    /\ runner' = [runner EXCEPT ![j].pc = "crashed"]
    /\ UNCHANGED <<services, config, clock, listings, photos, call, scrape_jobs, adapter>>

-----------------------------------------------------------------------------
(* The specifications *)

\* the steps of the task of job j and of the tasks it awaits
JobStep(j) ==
    \/ RunnerStart(j) \/ RunnerStartFails(j)
    \/ RunnerGather(j)
    \/ RunnerSweep(j) \/ RunnerSweepFails(j)
    \/ RunnerSucceed(j) \/ RunnerSucceedFails(j)
    \/ RunnerFail(j) \/ RunnerFailFails(j)
    \/ AdapterRateLimited(j) \/ AdapterBackoffDone(j)
    \/ \E s \in Sources : AdapterReturn(j, s) \/ AdapterRaise(j, s)

\* the whole system
Next ==
    \/ \E j \in Jobs : CreateJob(j)
    \/ \E j \in Jobs : RunnerStart(j)
    \/ \E j \in Jobs : RunnerStartFails(j)
    \/ \E j \in Jobs : RunnerGather(j)
    \/ \E j \in Jobs : RunnerSweep(j)
    \/ \E j \in Jobs : RunnerSweepFails(j)
    \/ \E j \in Jobs : RunnerSucceed(j)
    \/ \E j \in Jobs : RunnerSucceedFails(j)
    \/ \E j \in Jobs : RunnerFail(j)
    \/ \E j \in Jobs : RunnerFailFails(j)
    \/ \E j \in Jobs : AdapterRateLimited(j)
    \/ \E j \in Jobs : AdapterBackoffDone(j)
    \/ \E j \in Jobs, s \in Sources : AdapterReturn(j, s)
    \/ \E j \in Jobs, s \in Sources : AdapterRaise(j, s)
    \/ \E c \in Calls, j \in Jobs, s \in Sources, data \in ListingData,
          ext \in NextExtIds : CallStart(c, j, s, data, ext)
    \/ \E c \in Calls : UpsertStatement(c)
    \/ \E c \in Calls : UpsertFails(c)
    \/ \E c \in Calls : PhotosDeleteScan(c)
    \/ \E c \in Calls : PhotosDeleteLock(c)
    \/ \E c \in Calls : PhotosInsertCommit(c)
    \/ \E c \in Calls : PhotosRollback(c)

Spec == Init /\ [][Next]_vars

-----------------------------------------------------------------------------
(* The store gateway under one running job: the adapters of REMAX and of   *)
(* SREALITY are running and call upsert_listing.                           *)

InitStore ==
    /\ InitServices
    /\ config \in Configs
    /\ clock = 1
    /\ listings = {}
    /\ photos = {}
    /\ call = [c \in Calls |-> FreeCall]
    /\ scrape_jobs = [j \in Jobs |->
            IF j = 1 THEN [NoJob EXCEPT !.status = "Running", !.started_at = <<1>>]
            ELSE NoJob]
    /\ runner = [j \in Jobs |->
            IF j = 1 THEN [NoRunner EXCEPT !.pc = "gather", !.scrape_started_at = 1]
            ELSE NoRunner]
    /\ adapter = [j \in Jobs |->
            [s \in Sources |-> IF j = 1 THEN "running" ELSE "none"]]

NextStore ==
    \/ \E c \in Calls, s \in Sources, data \in ListingData, ext \in NextExtIds :
          CallStart(c, 1, s, data, ext)
    \/ \E c \in Calls : UpsertStatement(c)
    \/ \E c \in Calls : UpsertFails(c)
    \/ \E c \in Calls : PhotosDeleteScan(c)
    \/ \E c \in Calls : PhotosDeleteLock(c)
    \/ \E c \in Calls : PhotosInsertCommit(c)
    \/ \E c \in Calls : PhotosRollback(c)

SpecStore == InitStore /\ [][NextStore]_vars

-----------------------------------------------------------------------------
(* Overlapping runs of one source: every job is a queued job for SREALITY, *)
(* and the adapters emit records without photos.                           *)

DataWithoutPhotos == {data \in ListingData : data.photos = <<>>}

InitSweep ==
    /\ InitServices
    /\ config = OpenConfig
    /\ clock = 1
    /\ listings = {}
    /\ photos = {}
    /\ call = [c \in Calls |-> FreeCall]
    /\ \E full \in [Jobs -> BOOLEAN] :
         /\ scrape_jobs = [j \in Jobs |->
                [NoJob EXCEPT !.status = "Queued", !.full_rescan = full[j],
                              !.source_codes = <<"SREALITY">>]]
         /\ runner = [j \in Jobs |->
                [NoRunner EXCEPT !.pc = "queued", !.request = <<"SREALITY">>,
                                 !.full_rescan = full[j]]]
    /\ adapter = [j \in Jobs |-> [s \in Sources |-> "none"]]

NextSweep ==
    \/ \E j \in Jobs : RunnerStart(j)
    \/ \E j \in Jobs : RunnerStartFails(j)
    \/ \E j \in Jobs : RunnerGather(j)
    \/ \E j \in Jobs : RunnerSweep(j)
    \/ \E j \in Jobs : RunnerSweepFails(j)
    \/ \E j \in Jobs : RunnerSucceed(j)
    \/ \E j \in Jobs : RunnerSucceedFails(j)
    \/ \E j \in Jobs : RunnerFail(j)
    \/ \E j \in Jobs : RunnerFailFails(j)
    \/ \E j \in Jobs : AdapterRateLimited(j)
    \/ \E j \in Jobs : AdapterBackoffDone(j)
    \/ \E j \in Jobs, s \in Sources : AdapterReturn(j, s)
    \/ \E j \in Jobs, s \in Sources : AdapterRaise(j, s)
    \/ \E c \in Calls, j \in Jobs, s \in Sources, data \in DataWithoutPhotos,
          ext \in NextExtIds : CallStart(c, j, s, data, ext)
    \/ \E c \in Calls : UpsertStatement(c)
    \/ \E c \in Calls : UpsertFails(c)

SpecSweep == InitSweep /\ [][NextSweep]_vars

-----------------------------------------------------------------------------
(* The policy filter in front of the store: the adapters of job 1 emit     *)
(* houses and land, typed in Czech or with the canonical value, priced at  *)
(* and just above the limits of the default configuration, in and out of   *)
(* the target district.                                                    *)

FilterTypes == {"Dum", "House", "Pozemek", "Land"}

FilterPrices ==
    {<<DefaultConfig.search_filters.houses.max_price>>,
     <<DefaultConfig.search_filters.houses.max_price + 1>>,
     <<DefaultConfig.search_filters.land.max_price>>,
     <<DefaultConfig.search_filters.land.max_price + 1>>}

FilterData ==
    {[BaseData EXCEPT !.property_type = t, !.price = p, !.location_text = l,
                      !.photos = <<>>] :
        t \in FilterTypes, p \in FilterPrices, l \in {OkresZnojmo, Brno}}

InitFilter == InitStore /\ config = OpenConfig

NextFilter ==
    \/ \E c \in Calls, s \in Sources, data \in FilterData, ext \in NextExtIds :
          CallStart(c, 1, s, data, ext)
    \/ \E c \in Calls : UpsertStatement(c)
    \/ \E c \in Calls : UpsertFails(c)

SpecFilter == InitFilter /\ [][NextFilter]_vars

-----------------------------------------------------------------------------
(* The enum mapping of the store: the adapters of job 1 emit the types and *)
(* the offers in Czech (SReality, Remax) or as the values of the database  *)
(* enums (REAS, IDNES, Century21).                                         *)

\* reas_scraper.py 61-69: the values of PROPERTY_TYPE_MAP
CanonicalPropertyTypes == {"House", "Apartment", "Land"}

\* reas_scraper.py 519: "Sale" or "Rent"
CanonicalOfferTypes == {"Sale", "Rent"}

EnumData ==
    {[BaseData EXCEPT !.property_type = t, !.offer_type = o, !.photos = <<>>] :
        t \in {"Dum", "Byt", "Pozemek"} \cup CanonicalPropertyTypes,
        o \in {"Prodej", "Pronajem"} \cup CanonicalOfferTypes}

NextEnum ==
    \/ \E c \in Calls, s \in Sources, data \in EnumData, ext \in NextExtIds :
          CallStart(c, 1, s, data, ext)
    \/ \E c \in Calls : UpsertStatement(c)
    \/ \E c \in Calls : UpsertFails(c)

SpecEnum == InitFilter /\ [][NextEnum]_vars

-----------------------------------------------------------------------------
(* The cadastre enrichment: the listings are stored, their cadastre rows   *)
(* are in any state, and bulk_ruian_lookup runs in the background while a  *)
(* human may override rows.                                                *)

EnrichListing(l) ==
    ListingRow(l, AdapterOrder[(l % Len(AdapterOrder)) + 1],
               ExtOrder[(((l - 1) \div Len(AdapterOrder)) % Len(ExtOrder)) + 1],
               BaseData, 1)

\* the store after the scrapes: the listings are stored, the last one
\* active or not, and no job or call is running
InitStored ==
    /\ config = DefaultConfig
    /\ clock = 2
    /\ \E inactive \in SUBSET {NumListings} :
         listings = {[EnrichListing(l) EXCEPT !.is_active = l \notin inactive] :
                        l \in ListingIds}
    /\ photos = {}
    /\ call = [c \in Calls |-> FreeCall]
    /\ scrape_jobs = [j \in Jobs |-> NoJob]
    /\ runner = [j \in Jobs |-> NoRunner]
    /\ adapter = [j \in Jobs |-> [s \in Sources |-> "none"]]
    /\ http = NoFetch

InitRuian ==
    /\ InitStored
    /\ cadastre \in [ListingIds -> {"none"} \cup FetchStatus]
    /\ ruian = [p \in Runs |-> NoRuian]
    /\ geocoded = [l \in ListingIds |-> NotGeocoded]
    /\ geo = [g \in Runs |-> NoGeo]
    /\ nominatim = NoRequests
    /\ discovery = NoDiscovery
    /\ pager = NoPager
    /\ sem = NoSem
    /\ reas = NoReas
    /\ remax = NoRemax
    /\ browser = NoBrowser

NextRuian ==
    \/ \E p \in Runs, overwrite_not_found \in BOOLEAN, batch_size \in ListingIds :
          RuianSelect(p, overwrite_not_found, batch_size)
    \/ \E p \in Runs, status \in LookupStatus : RuianLookup(p, status)
    \/ \E p \in Runs : RuianWrite(p)
    \/ \E p \in Runs : RuianSleep(p)
    \/ \E l \in ListingIds : HumanSetsManual(l)

SpecRuian == InitRuian /\ [][NextRuian]_vars

-----------------------------------------------------------------------------
(* The page loop of one adapter run, for every sequence of responses of    *)
(* the portal.                                                             *)

NextPager ==
    \/ \E source_code \in Sources, full_rescan \in BOOLEAN :
          PagerRun(source_code, full_rescan)
    \/ \E response \in PageResponses : PagerFetch(response)

SpecPager == Init /\ [][NextPager]_vars

-----------------------------------------------------------------------------
(* The detail tasks of one page: asyncio.gather runs them all, and every   *)
(* fetch ends (the HTTP client has a timeout), so each step that is        *)
(* possible is eventually taken.                                           *)

NextDetail ==
    \/ \E t \in DetailTasks : DetailAcquire(t)
    \/ \E t \in DetailTasks, ok \in BOOLEAN : DetailFetchEnds(t, ok)

SpecDetail ==
    /\ Init
    /\ [][NextDetail]_vars
    /\ \A t \in DetailTasks : WF_vars(DetailAcquire(t))
    /\ \A t \in DetailTasks : WF_vars(\E ok \in BOOLEAN : DetailFetchEnds(t, ok))

-----------------------------------------------------------------------------
(* One REAS category, for every count the first page reports, in both      *)
(* modes, with and without a build id.                                     *)

NextReas ==
    \/ \E full_rescan \in BOOLEAN, has_build_id \in BOOLEAN :
          ReasFirstPageEmpty(full_rescan, has_build_id)
    \/ \E full_rescan \in BOOLEAN, has_build_id \in BOOLEAN,
          total_count \in CategoryCounts :
          ReasFirstPage(full_rescan, has_build_id, total_count)
    \/ \E has_data \in BOOLEAN, ads \in AdsPerPage : ReasPage(has_data, ads)

SpecReas == Init /\ [][NextReas]_vars

-----------------------------------------------------------------------------
(* One run of the REMAX adapter, for every number of listings each search  *)
(* configuration scrapes.                                                  *)

NextRemax ==
    \/ RemaxRun
    \/ \E scraped \in 0..MaxScraped : RemaxScrape(scraped)

SpecRemax == Init /\ [][NextRemax]_vars

-----------------------------------------------------------------------------
(* Concurrent callers of get_browser_manager, with close_browser_manager   *)
(* called at any moment.                                                   *)

NextBrowser ==
    \/ \E k \in Callers : GetBrowserManager(k)
    \/ \E k \in Callers : BrowserStarted(k)
    \/ \E k \in Callers : GetContext(k)
    \/ CloseBrowserManager

SpecBrowser == Init /\ [][NextBrowser]_vars

-----------------------------------------------------------------------------
(* bulk_geocode invoked again and again with one batch size, one run at a  *)
(* time, over listings first seen at different times (listing 1 last).     *)
(* Every request is answered, and the endpoint keeps being called.         *)

RepeatBatchSize == 1

InitGeoRepeat ==
    /\ InitServices
    /\ config \in Configs
    /\ clock = NumListings + 1
    /\ \E inactive \in SUBSET {NumListings} :
          listings = {[EnrichListing(l) EXCEPT !.first_seen_at = NumListings + 1 - l,
                                                !.last_seen_at = NumListings + 1 - l,
                                                !.is_active = l \notin inactive] :
                          l \in ListingIds}
    /\ photos = {}
    /\ call = [c \in Calls |-> FreeCall]
    /\ scrape_jobs = [j \in Jobs |-> NoJob]
    /\ runner = [j \in Jobs |-> NoRunner]
    /\ adapter = [j \in Jobs |-> [s \in Sources |-> "none"]]

NextGeoRepeat ==
    \/ GeoBulkSelect(1, RepeatBatchSize)
    \/ GeoSend(1)
    \/ \E found \in BOOLEAN : GeoReceive(1, found)
    \/ GeoBetween(1)
    \/ GeoUpdate(1)
    \/ GeoPause(1)
    \/ GeoBulkAgain(1)

SpecGeoRepeat ==
    /\ InitGeoRepeat
    /\ [][NextGeoRepeat]_vars
    /\ WF_vars(NextGeoRepeat)

-----------------------------------------------------------------------------
(* The enrichments run one after another: a bulk operation is started     *)
(* when no other one is running.                                          *)

NoEnrichmentRunning ==
    \A p \in Runs : /\ ruian[p].pc \in {"idle", "done"}
                    /\ geo[p].pc \in {"idle", "done"}

InitEnrich ==
    /\ InitStored
    /\ InitServices

NextEnrich ==
    \/ \E p \in Runs, overwrite_not_found \in BOOLEAN, batch_size \in ListingIds :
          NoEnrichmentRunning /\ RuianSelect(p, overwrite_not_found, batch_size)
    \/ \E p \in Runs, status \in LookupStatus : RuianLookup(p, status)
    \/ \E p \in Runs : RuianWrite(p)
    \/ \E p \in Runs : RuianSleep(p)
    \/ \E g \in Runs, batch_size \in ListingIds :
          NoEnrichmentRunning /\ GeoBulkSelect(g, batch_size)
    \/ \E g \in Runs : GeoSend(g)
    \/ \E g \in Runs, found \in BOOLEAN : GeoReceive(g, found)
    \/ \E g \in Runs : GeoBetween(g)
    \/ \E g \in Runs : GeoUpdate(g)
    \/ \E g \in Runs : GeoPause(g)

SpecEnrich == InitEnrich /\ [][NextEnrich]_vars

-----------------------------------------------------------------------------
(* The geocoding: bulk_geocode runs in the background and single           *)
(* geocoding calls are served, in any interleaving.                        *)

InitGeo ==
    /\ InitStored
    /\ cadastre = [l \in ListingIds |-> "none"]
    /\ ruian = [p \in Runs |-> NoRuian]
    /\ geocoded \in [ListingIds ->
            {NotGeocoded, [latitude |-> <<1>>, outcome |-> "found"]}]
    /\ geo = [g \in Runs |-> NoGeo]
    /\ nominatim = NoRequests
    /\ discovery = NoDiscovery
    /\ pager = NoPager
    /\ sem = NoSem
    /\ reas = NoReas
    /\ remax = NoRemax
    /\ browser = NoBrowser

NextGeo ==
    \/ \E g \in Runs, batch_size \in ListingIds : GeoBulkSelect(g, batch_size)
    \/ \E g \in Runs : GeoSingle(g)
    \/ \E g \in Runs : GeoSend(g)
    \/ \E g \in Runs, found \in BOOLEAN : GeoReceive(g, found)
    \/ \E g \in Runs : GeoBetween(g)
    \/ \E g \in Runs : GeoUpdate(g)
    \/ \E g \in Runs : GeoPause(g)

SpecGeo == InitGeo /\ [][NextGeo]_vars

-----------------------------------------------------------------------------
(* One fetch through http_retry                                            *)

NextHttp ==
    \/ FetchCall
    \/ \E outcome \in FetchOutcomes : FetchAttempt(outcome)
    \/ FetchBackoff

SpecHttp == Init /\ [][NextHttp]_vars

-----------------------------------------------------------------------------
(* One run of a job over every source: job 1 is queued without source      *)
(* codes, so both adapters are scheduled; the adapters emit records        *)
(* without photos, which the default configuration rejects and the open    *)
(* one admits.                                                             *)

InitRun ==
    /\ InitServices
    /\ config \in Configs
    /\ clock = 1
    /\ listings = {}
    /\ photos = {}
    /\ call = [c \in Calls |-> FreeCall]
    /\ \E full \in BOOLEAN :
         /\ scrape_jobs = [j \in Jobs |->
                IF j = 1 THEN [NoJob EXCEPT !.status = "Queued",
                                            !.full_rescan = full]
                ELSE NoJob]
         /\ runner = [j \in Jobs |->
                IF j = 1 THEN [NoRunner EXCEPT !.pc = "queued",
                                               !.full_rescan = full]
                ELSE NoRunner]
    /\ adapter = [j \in Jobs |-> [s \in Sources |-> "none"]]

NextRun ==
    \/ \E j \in Jobs : RunnerStart(j)
    \/ \E j \in Jobs : RunnerStartFails(j)
    \/ \E j \in Jobs : RunnerGather(j)
    \/ \E j \in Jobs : RunnerSweep(j)
    \/ \E j \in Jobs : RunnerSweepFails(j)
    \/ \E j \in Jobs : RunnerSucceed(j)
    \/ \E j \in Jobs : RunnerSucceedFails(j)
    \/ \E j \in Jobs : RunnerFail(j)
    \/ \E j \in Jobs : RunnerFailFails(j)
    \/ \E j \in Jobs, s \in Sources : AdapterReturn(j, s)
    \/ \E j \in Jobs, s \in Sources : AdapterRaise(j, s)
    \/ \E c \in Calls, j \in Jobs, s \in Sources, data \in DataWithoutPhotos,
          ext \in NextExtIds : CallStart(c, j, s, data, ext)
    \/ \E c \in Calls : UpsertStatement(c)
    \/ \E c \in Calls : UpsertFails(c)

SpecRun == InitRun /\ [][NextRun]_vars

-----------------------------------------------------------------------------
(* A job over a store that already holds listings: job 1, incremental or   *)
(* full rescan, runs both adapters over the stored listings of the two     *)
(* sources; the adapters save records, raise, or stop on a page error.     *)

\* the stored listings have ids of their own, apart from the ids the
\* upsert_listing calls of the job generate
StoredListing(l) == [EnrichListing(l) EXCEPT !.id = NumCalls + l]

InitRescan ==
    /\ InitServices
    /\ config = OpenConfig
    /\ clock = 2
    /\ \E inactive \in SUBSET {1} :
         listings = {[StoredListing(l) EXCEPT !.is_active = l \notin inactive] :
                        l \in ListingIds}
    /\ photos = {}
    /\ call = [c \in Calls |-> FreeCall]
    /\ \E full \in BOOLEAN :
         /\ scrape_jobs = [j \in Jobs |->
                IF j = 1 THEN [NoJob EXCEPT !.status = "Queued",
                                            !.full_rescan = full]
                ELSE NoJob]
         /\ runner = [j \in Jobs |->
                IF j = 1 THEN [NoRunner EXCEPT !.pc = "queued",
                                               !.full_rescan = full]
                ELSE NoRunner]
    /\ adapter = [j \in Jobs |-> [s \in Sources |-> "none"]]

NextRescan ==
    \/ NextRun
    \/ \E j \in Jobs : AdapterPageFetchFails(j)

SpecRescan == InitRescan /\ [][NextRescan]_vars

-----------------------------------------------------------------------------
(* The job runner: the jobs from their creation to their end               *)

NextJobs ==
    \/ \E j \in Jobs : CreateJob(j)
    \/ \E j \in Jobs : RunnerStart(j)
    \/ \E j \in Jobs : RunnerStartFails(j)
    \/ \E j \in Jobs : RunnerGather(j)
    \/ \E j \in Jobs : RunnerSweep(j)
    \/ \E j \in Jobs : RunnerSweepFails(j)
    \/ \E j \in Jobs : RunnerSucceed(j)
    \/ \E j \in Jobs : RunnerSucceedFails(j)
    \/ \E j \in Jobs : RunnerFail(j)
    \/ \E j \in Jobs : RunnerFailFails(j)
    \/ \E j \in Jobs : AdapterRateLimited(j)
    \/ \E j \in Jobs : AdapterBackoffDone(j)
    \/ \E j \in Jobs, s \in Sources : AdapterReturn(j, s)
    \/ \E j \in Jobs, s \in Sources : AdapterRaise(j, s)

InitJobs == Init /\ config = DefaultConfig

SpecJobs == InitJobs /\ [][NextJobs]_vars

\* The event loop runs every task that can take a step, and every external
\* call returns or raises.
FairSpecJobs == SpecJobs /\ \A j \in Jobs : WF_vars(JobStep(j))

-----------------------------------------------------------------------------
(* The claims about the store gateway, under SpecStore                     *)

Returned == {c \in Calls : call[c].result # Null}

RowsOfKey(source_code, external_id) ==
    {r \in listings : r.source_code = source_code /\ r.external_id = external_id}

\* C1: the listings table holds at most one row per (source_code,
\* external_id), whatever the interleaving of the upsert_listing calls; every
\* call whose statement has run returns the id of the one row of its key; and
\* records with the same external_id and different source_code have distinct
\* rows.
C1_OneRowPerKey ==
    /\ \A r1, r2 \in listings :
         (r1.source_code = r2.source_code /\ r1.external_id = r2.external_id)
            => r1 = r2
    /\ \A c \in Returned :
         \E r \in RowsOfKey(call[c].src, call[c].ext) : call[c].result = <<r.id>>
    /\ \A c1, c2 \in Returned :
         (call[c1].ext = call[c2].ext /\ call[c1].src # call[c2].src)
            => call[c1].result # call[c2].result

\* two calls for one key, the one that took its timestamp first running its
\* statement last, have returned the id of the single row of the key
C1_Witness ==
    \E c1, c2 \in Returned :
        /\ call[c1].pc = "done" /\ call[c2].pc = "done"
        /\ call[c1].outcome = "saved" /\ call[c2].outcome = "saved"
        /\ call[c1].src = call[c2].src /\ call[c1].ext = call[c2].ext
        /\ call[c1].now < call[c2].now /\ call[c1].seq > call[c2].seq
        /\ call[c1].result = call[c2].result
        /\ Cardinality(RowsOfKey(call[c1].src, call[c1].ext)) = 1

\* C2: in every reachable state of the store every listing has
\* first_seen_at <= last_seen_at.
C2_FirstSeenNotAfterLastSeen ==
    \A r \in listings : r.first_seen_at <= r.last_seen_at

\* C3: last_seen_at of a listing never decreases: no step leaves a row with a
\* smaller last_seen_at than it had.
C3_LastSeenNeverDecreases ==
    [][\A r \in listings : \A r2 \in listings' :
          r2.id = r.id => r2.last_seen_at >= r.last_seen_at]_vars

\* the step in which the statement of call c runs against an existing row r
HitsRow(c, r) ==
    /\ call[c].pc = "stmt"
    /\ call'[c].result # Null
    /\ r.source_code = call[c].src
    /\ r.external_id = call[c].ext

\* C4: first_seen_at is write-once: no step changes the first_seen_at or the
\* id of a row, and the statement of an upsert_listing that hits an existing
\* row sets the row's price to the observed one, last_seen_at to the call's
\* timestamp and is_active to true, and returns the row's id.
C4_FirstSeenWriteOnce ==
    [][\A r \in listings :
          /\ \E r2 \in listings' :
                /\ r2.id = r.id
                /\ r2.source_code = r.source_code
                /\ r2.external_id = r.external_id
                /\ r2.first_seen_at = r.first_seen_at
          /\ \A c \in Calls : HitsRow(c, r) =>
                /\ call'[c].result = <<r.id>>
                /\ \A r2 \in listings' : r2.id = r.id =>
                      /\ r2.price = call[c].data.price
                      /\ r2.last_seen_at = call[c].now
                      /\ r2.is_active]_vars

\* a second observation, later than the first and with another price, has
\* been stored in the row the first one inserted
C4_Witness ==
    \E c1, c2 \in Returned : \E r \in listings :
        /\ call[c1].result = <<r.id>> /\ call[c2].result = <<r.id>>
        /\ call[c1].seq < call[c2].seq /\ call[c1].now < call[c2].now
        /\ call[c1].data.price # call[c2].data.price
        /\ r.price = call[c2].data.price
        /\ r.first_seen_at = call[c1].now
        /\ r.last_seen_at = call[c2].now

\* C6: in every reachable state each listing has at most 20 photo rows, and
\* their order_index values are exactly 0 .. N-1 without duplicates.
C6_PhotoIndexDense ==
    \A r \in listings :
        LET rows == PhotosOf(photos, r.id) IN
        /\ Cardinality(rows) <= MaxPhotos
        /\ \A p1, p2 \in rows : p1.order_index = p2.order_index => p1 = p2
        /\ {p.order_index : p \in rows} = 0..(Cardinality(rows) - 1)

\* the step in which call c returns a listing id
ReturnsId(c) ==
    /\ call[c].pc # "done"
    /\ call'[c].pc = "done"
    /\ call'[c].outcome = "saved"

\* C7: every admitted observation fully replaces the photo set: when
\* upsert_listing returns an id, the photos of the listing are exactly the
\* first 20 URLs of the observed record, in order (none when the record has
\* no photos).
C7_PhotosFullyReplaced ==
    [][\A c \in Calls : ReturnsId(c) =>
          LET urls == call[c].data.photos
              kept == IF Len(urls) < MaxPhotos THEN Len(urls) ELSE MaxPhotos
          IN {<<p.original_url, p.order_index>> :
                    p \in PhotosOf(photos', call'[c].result[1])}
               = {<<urls[i], i - 1>> : i \in 1..kept}]_vars

\* the record has no photo and the configuration requires photos
RejectedForPhotos(data) ==
    config.quality_filters.require_photos /\ data.photos = <<>>

\* C12: when the policy filter rejects a record, upsert_listing returns
\* None and the store is as it was: no listing row and no photo row is
\* inserted, updated or deleted, in that step or later by that call.
C12_RejectedChangesNothing ==
    [][\A c \in Calls :
          /\ (call[c].pc = "free" /\ call'[c].pc # "free"
                /\ RejectedForPhotos(call'[c].data))
                => call'[c].outcome = "filtered"
          /\ (call[c].pc = "free" /\ call'[c].outcome = "filtered")
                => /\ call'[c].pc = "done"
                   /\ call'[c].result = Null
                   /\ listings' = listings
                   /\ photos' = photos
          /\ call[c].outcome = "filtered" => call'[c] = call[c]]_vars

\* a record was rejected while the listing of its key was stored, active
\* and with photos
C12_Witness ==
    \E c \in Calls, r \in listings :
        /\ call[c].outcome = "filtered"
        /\ call[c].result = Null
        /\ r.source_code = call[c].src /\ r.external_id = call[c].ext
        /\ r.is_active
        /\ PhotosOf(photos, r.id) # {}

-----------------------------------------------------------------------------
(* The claim about the deactivation sweep, under SpecSweep                 *)

\* the step in which job j sweeps source s
Sweeps(j, s) ==
    /\ runner[j].pc = "sweep"
    /\ Head(runner[j].todo) = s
    /\ runner'[j].pc \in {"sweep", "succeed"}
    /\ runner'[j].todo = Tail(runner[j].todo)

\* an upsert_listing of the run of job j has stored the listing
UpsertedInRun(j, listing_id) ==
    \E c \in Returned : call[c].job = j /\ call[c].result = <<listing_id>>

\* no statement has stored the listing since job j took its scan-start time
NotUpsertedSince(j, listing_id) ==
    \A c \in Returned :
        call[c].result = <<listing_id>> => call[c].seq <= runner[j].seq_at_start

\* C5: when a full-rescan job has swept source X, every listing of X that
\* was upserted during that run is active and every listing of X not upserted
\* since the scan start is inactive, also when another job on the same
\* source overlaps the run.
C5_SweepSeparatesSeenFromUnseen ==
    [][\A j \in Jobs, s \in Sources : Sweeps(j, s) =>
          \A r \in listings' : r.source_code = s =>
              /\ UpsertedInRun(j, r.id) => r.is_active
              /\ NotUpsertedSince(j, r.id) => ~r.is_active]_vars

-----------------------------------------------------------------------------
(* The claims about the job runner, under SpecJobs and FairSpecJobs        *)

Terminal == {"Succeeded", "Failed"}

\* the place of a status in Queued -> Running -> (Succeeded | Failed); a job
\* without a row has the status ""
Rank(status) ==
    CASE status = "" -> 0
      [] status = "Queued" -> 1
      [] status = "Running" -> 2
      [] status \in Terminal -> 3

C9_FinishedAtIffTerminal ==
    \A j \in Jobs :
        /\ scrape_jobs[j].status \in Terminal => scrape_jobs[j].finished_at # Null
        /\ scrape_jobs[j].status \in {"Queued", "Running"}
              => scrape_jobs[j].finished_at = Null

\* one job has succeeded and has its finished_at, another is still running
\* its adapters
C9_Witness ==
    \E j1, j2 \in Jobs :
        /\ scrape_jobs[j1].status = "Succeeded"
        /\ scrape_jobs[j1].finished_at # Null
        /\ scrape_jobs[j2].status = "Running"
        /\ runner[j2].pc = "gather"

\* C10: every job handed to run_scrape_job eventually is Succeeded or
\* Failed, provided every external call returns or raises.
C10_EveryJobEnds ==
    \A j \in Jobs :
        (runner[j].pc = "queued") ~> (scrape_jobs[j].status \in Terminal)

-----------------------------------------------------------------------------
(* The claims about a run over every source, under SpecRun                 *)

\* the adapters of job j that raised, and those that returned a count
RaisedAdapters(j) == {s \in Sources : adapter[j][s] = "raised"}
ReturnedAdapters(j) == {s \in Sources : adapter[j][s] = "returned"}

\* the sum of the counts of the adapters of job j that returned one
SurvivorsTotal(j) ==
    (IF "REMAX" \in ReturnedAdapters(j) THEN AdapterCount(j, "REMAX") ELSE 0)
    + (IF "SREALITY" \in ReturnedAdapters(j)
       THEN AdapterCount(j, "SREALITY") ELSE 0)

\* C11: when adapters of a job raise, gather still waits for every other
\* adapter to end, the job does not enter the exception handler because of
\* them, and when it is marked Succeeded its listings_found is the sum of
\* the counts the adapters that did not raise returned, for incremental
\* and for full-rescan jobs.
C11_SurvivorsCounted ==
    [][\A j \in Jobs :
          /\ (runner[j].pc = "gather" /\ runner'[j].pc # "gather") =>
                /\ \A s \in Range(Tasks(runner[j].request)) :
                      adapter[j][s] \in {"returned", "raised"}
                /\ runner'[j].pc \in {"sweep", "succeed"}
          /\ (scrape_jobs[j].status # "Succeeded"
                /\ scrape_jobs'[j].status = "Succeeded"
                /\ RaisedAdapters(j) # {}) =>
                scrape_jobs'[j].listings_found =
                    <<SurvivorsTotal(j)>>]_vars

\* a full-rescan job has succeeded, one adapter raised and the other one
\* returned a count that is not zero
C11_Witness ==
    \E j \in Jobs :
        /\ scrape_jobs[j].status = "Succeeded"
        /\ runner[j].full_rescan
        /\ adapter[j]["SREALITY"] = "raised"
        /\ adapter[j]["REMAX"] = "returned"
        /\ scrape_jobs[j].listings_found # Null
        /\ scrape_jobs[j].listings_found[1] > 0

-----------------------------------------------------------------------------
(* The claim about the price limits, under SpecFilter                      *)

\* C13: no stored listing has property_type House and a price above
\* search_filters.houses.max_price, or property_type Land and a price above
\* search_filters.land.max_price, whether the adapter gave the type in
\* Czech or as the canonical value; and a record priced exactly at the
\* limit is not rejected for its price.
C13_PriceLimitEnforced ==
    /\ \A r \in listings :
          /\ r.property_type = "House"
                => NumVal(r.price) <= config.search_filters.houses.max_price
          /\ r.property_type = "Land"
                => NumVal(r.price) <= config.search_filters.land.max_price
    /\ \A c \in Calls :
          (/\ call[c].pc # "free"
           /\ call[c].data.location_text = OkresZnojmo
           /\ \/ /\ call[c].data.property_type \in {"Dum", "House"}
                 /\ NumVal(call[c].data.price)
                        = config.search_filters.houses.max_price
              \/ /\ call[c].data.property_type \in {"Pozemek", "Land"}
                 /\ NumVal(call[c].data.price)
                        = config.search_filters.land.max_price)
          => call[c].outcome # "filtered"

-----------------------------------------------------------------------------
(* The claims about http_retry, under SpecHttp                             *)

Transient == {"429", "503", "ConnectError", "TimeoutException"}

\* C14: a fetch that fails with a non-retryable HTTP status (a 4xx other
\* than 429, here 404) is attempted exactly once, and the error reaches
\* the caller without a backoff wait.
C14_NotFoundNotRetried ==
    (http.log # <<>> /\ http.log[1] = "404")
        => /\ http.pc = "raised"
           /\ http.error = "404"
           /\ Len(http.log) = 1
           /\ http.sleeps = 0

\* C15: a fetch that keeps failing with a transient error is attempted
\* exactly 3 times, with one backoff wait between consecutive attempts, and
\* then the last error is raised; a success on attempt 1, 2 or 3 returns
\* and no further attempt is made.
C15_ThreeAttemptsWithBackoff ==
    /\ Len(http.log) <= 3
    /\ http.pc \in {"wait", "returned", "raised"}
          => http.sleeps = Len(http.log) - 1
    /\ http.pc = "attempt" => http.sleeps = Len(http.log)
    /\ (http.pc = "raised" /\ \A i \in 1..Len(http.log) : http.log[i] \in Transient)
          => /\ Len(http.log) = 3
             /\ http.error = http.log[3]
    /\ (\A i \in 1..Len(http.log) : http.log[i] \in Transient)
          => http.pc \in {"idle", "attempt", "wait", "raised"}
    /\ \A i \in 1..Len(http.log) :
          http.log[i] = "ok" => (i = Len(http.log) /\ http.pc = "returned")
    /\ http.pc = "returned" => http.log[Len(http.log)] = "ok"

\* the third attempt failed with a transient error as the two before it,
\* and that error was raised after two waits
C15_Witness ==
    /\ http.pc = "raised"
    /\ http.log = <<"503", "TimeoutException", "429">>
    /\ http.error = "429"
    /\ http.sleeps = 2

-----------------------------------------------------------------------------
(* The claims about the cadastre enrichment, under SpecRuian               *)

\* C16: no step of bulk_ruian_lookup changes a cadastre row whose
\* fetch_status is manual, for either value of overwrite_not_found, also when
\* the row became manual after the run selected its batch and before the run
\* writes the result of that listing.
C16_ManualNeverOverwritten ==
    [][\A l \in ListingIds :
          (cadastre[l] = "manual" /\ \E p \in Runs : ruian'[p] # ruian[p])
              => cadastre'[l] = "manual"]_vars

-----------------------------------------------------------------------------
(* The claim about re-running an enrichment, under SpecEnrich              *)

\* every active listing has a cadastre outcome of an earlier run
AllHaveCadastreOutcome ==
    \A l \in ListingIds : IsActive(l) => cadastre[l] \in LookupStatus

\* every active listing has a geocoding outcome of an earlier run
AllHaveGeocodeOutcome ==
    \A l \in ListingIds : IsActive(l) => geocoded[l].outcome \in {"found", "failed"}

RuianRerunIdle(p) ==
    (/\ ruian[p].pc = "idle"
     /\ ruian'[p].pc # "idle"
     /\ ~ruian'[p].overwrite_not_found
     /\ \E q \in Runs : ruian[q].pc = "done"
     /\ AllHaveCadastreOutcome)
        => ruian'[p] = [NoRuian EXCEPT !.pc = "done"]

GeoRerunIdle(g) ==
    (/\ geo[g].pc = "idle"
     /\ geo'[g].kind = "bulk"
     /\ \E q \in Runs : geo[q].pc = "done"
     /\ AllHaveGeocodeOutcome)
        => geo'[g] = [NoGeo EXCEPT !.kind = "bulk", !.pc = "done"]

\* C17: an enrichment bulk operation (bulk_geocode, or bulk_ruian_lookup
\* with overwrite_not_found = false) started after an earlier run, when
\* every active listing has an outcome (a failed geocode and a cadastre
\* error or not_found included), selects nothing: it ends at once with no
\* request, no write and zero processed.
C17_RerunDoesNothing ==
    [][\A p \in Runs : RuianRerunIdle(p) /\ GeoRerunIdle(p)]_vars

-----------------------------------------------------------------------------
(* The claim about the rate limit of the geocoding API, under SpecGeo      *)

\* C18: whenever the process sends a request to the geocoding API, no other
\* geocoding request is in flight, and unless it is the first request a
\* rate-limit sleep has ended since the request before it was sent, for
\* every interleaving of bulk runs and single calls.
C18_GeocodingRateLimited ==
    [][nominatim'.sent = nominatim.sent + 1 =>
          /\ nominatim.inflight = {}
          /\ nominatim.sent = 0 \/ nominatim.slept]_vars

-----------------------------------------------------------------------------
(* The claim about the count an adapter returns, under SpecRun             *)

\* the upsert_listing calls of the adapter of job j for source s that
\* returned an id
Persisted(j, s) == {c \in CallsOf(j, s) : call[c].outcome = "saved"}

\* C19: the count the run() of an adapter returns is the number of records
\* persisted during that run (upsert_listing returned an id); the records
\* the policy filter rejected and the records whose processing failed are
\* not counted.
C19_CountIsPersisted ==
    \A j \in Jobs : \A s \in Sources :
        adapter[j][s] = "returned"
            => AdapterCount(j, s) = Cardinality(Persisted(j, s))

-----------------------------------------------------------------------------
(* The claim about the order of the saves and the sweep of one job, under  *)
(* SpecRun                                                                 *)

\* job j has swept source s
Swept(j, s) ==
    /\ runner[j].full_rescan
    /\ adapter[j][s] = "returned"
    /\ runner[j].pc \in {"sweep", "succeed", "done"}
    /\ s \notin Range(runner[j].todo)

\* C20: within one job the sweep of source X is invoked only after the
\* adapter of X has completed, with none of its upsert_listing calls
\* pending, and after the sweep no upsert_listing of that run of X starts
\* or finishes; every upsert_listing of the job takes its time not before
\* the scan-start timestamp, which the runner has taken by then.
C20_SweepAfterSaves ==
    [][\A j \in Jobs :
          /\ \A s \in Sources :
                /\ Sweeps(j, s) =>
                      adapter[j][s] = "returned" /\ InFlight(j, s) = {}
                /\ Swept(j, s) =>
                      \A c \in Calls :
                          (call'[c].job = j /\ call'[c].src = s)
                              => call'[c] = call[c]
          /\ \A c \in Calls :
                (call[c].pc = "free" /\ call'[c].pc = "stmt" /\ call'[c].job = j)
                    => /\ runner[j].pc = "gather"
                       /\ call'[c].now >= runner[j].scrape_started_at]_vars

\* a full-rescan job has swept a source whose adapter persisted a record
\* in this run
C20_Witness ==
    \E j \in Jobs : \E s \in Sources : Swept(j, s) /\ Persisted(j, s) # {}

-----------------------------------------------------------------------------
(* The claims about the sweeps of a job over stored listings, under        *)
(* SpecRescan                                                              *)

\* listing listing_id is active now and inactive after the step
Deactivated(listing_id) ==
    /\ \E r \in listings : r.id = listing_id /\ r.is_active
    /\ \E r \in listings' : r.id = listing_id /\ ~r.is_active

SourceOf(listing_id) == (CHOOSE r \in listings : r.id = listing_id).source_code

\* C21: the runner invokes the sweep only in a full-rescan job and only
\* for a source whose adapter returned without raising; a listing's
\* is_active goes to false only in such a sweep of its source, so an
\* incremental job never deactivates a listing.
C21_SweepOnlyFullAndReturned ==
    [][/\ \A j \in Jobs : \A s \in Sources :
            Sweeps(j, s) => runner[j].full_rescan /\ adapter[j][s] = "returned"
       /\ \A l \in {r.id : r \in listings} :
            Deactivated(l) =>
                \E j \in Jobs :
                    /\ Sweeps(j, SourceOf(l))
                    /\ runner[j].full_rescan
                    /\ adapter[j][SourceOf(l)] = "returned"]_vars

\* a full-rescan job has ended: the adapter that raised was not swept and
\* its stored listing is still active, the adapter that returned was swept
\* and its stored listing is inactive
C21_Witness ==
    \E j \in Jobs :
        /\ runner[j].pc = "done"
        /\ runner[j].full_rescan
        /\ adapter[j]["SREALITY"] = "raised"
        /\ adapter[j]["REMAX"] = "returned"
        /\ \E r \in listings : r.source_code = "SREALITY" /\ r.is_active
        /\ \E r \in listings : r.source_code = "REMAX" /\ ~r.is_active

\* the stored listings of source s that were active before the run
StoredActive(s) ==
    {NumCalls + l : l \in {k \in ListingIds : k # 1 /\ StoredListing(k).source_code = s}}

IsInactive(listing_id) ==
    \E r \in listings : r.id = listing_id /\ ~r.is_active

\* job j is a full rescan that has succeeded and whose REMAX adapter ended
\* its page loop on a fetch error and returned its count
SucceededAfterDiscoveryError(j) ==
    /\ runner[j].pc = "done"
    /\ scrape_jobs[j].status = "Succeeded"
    /\ runner[j].full_rescan
    /\ discovery[j]["REMAX"]

-----------------------------------------------------------------------------
(* The claim about the listing statement and the photo transaction, under  *)
(* SpecStore                                                               *)

\* the committed row of the listing carries the write of call c (the time
\* a call takes is its own)
WriteVisible(c) ==
    \E r \in listings : r.id = call[c].result[1] /\ r.last_seen_at = call[c].now

\* C22: the listing statement and the photo replacement of one
\* upsert_listing call are one atomic unit: while the photo transaction
\* is open no other connection sees the listing row as this call wrote it
\* (with the old photo set), and after the photo transaction failed the
\* row does not carry the write of the call.
C22_ListingAndPhotosAtomic ==
    \A c \in Calls :
        (/\ call[c].result # Null
         /\ \/ call[c].pc \in {"delete", "locking", "insert"}
            \/ call[c].outcome = "raised")
            => ~WriteVisible(c)

-----------------------------------------------------------------------------
(* The claim about the page cap, under SpecPager                           *)

\* C23: in one adapter run the number of index-page fetches of a search
\* configuration never exceeds the page cap of the mode, whatever the
\* portal answers, repeated HTTP 429 answers included.
C23_FetchesWithinCap ==
    pager.pc # "idle" => pager.fetches <= pager.max_pages

-----------------------------------------------------------------------------
(* The claim about the bounded parallelism of the detail fetches, under    *)
(* SpecDetail                                                              *)

\* C24: within one adapter run at most detail_fetch_concurrency detail
\* fetches are in flight at any moment; every permit taken is released
\* when the fetch returns or raises (the permits not in the semaphore are
\* exactly those of the fetches in flight); and every detail task of the
\* page eventually gets a permit.
C24_BoundedDetailFetches ==
    /\ [](/\ Cardinality(FetchingTasks) <= detail_fetch_concurrency
          /\ sem.value + Cardinality(FetchingTasks) = detail_fetch_concurrency)
    /\ \A t \in DetailTasks :
          (sem.task[t] \in {"created", "waiting"})
              ~> (sem.task[t] \in {"fetching", "returned", "raised"})

\* every permit is taken, a task waits for one, and a fetch that raised
\* has given its permit back
C24_Witness ==
    /\ Cardinality(FetchingTasks) = detail_fetch_concurrency
    /\ \E t \in DetailTasks : sem.task[t] = "waiting"
    /\ \E t \in DetailTasks : sem.task[t] = "raised"

-----------------------------------------------------------------------------
(* The claim about the count guard of REAS, under SpecReas                 *)

\* C25: when the first page of a REAS category reports a count above 500,
\* _scrape_category returns 0 with no further page fetched and no record
\* of the category passed to upsert_listing, in both modes; a count of
\* exactly 500 is not skipped: its pages are processed.
C25_CountGuard ==
    /\ (reas.pc # "idle" /\ reas.total_count > MAX_EXPECTED_CATEGORY_COUNT)
          => /\ reas.pc = "done"
             /\ reas.result = <<0>>
             /\ reas.fetches = 0
             /\ reas.passed = 0
    /\ (reas.pc # "idle" /\ reas.total_count = MAX_EXPECTED_CATEGORY_COUNT)
          => /\ reas.page_num >= 1
             /\ reas.pc = "done" => reas.result = <<reas.passed>>

\* a full-rescan category that reported exactly 500 has been processed
\* over several pages and has passed records to upsert_listing
C25_Witness ==
    /\ reas.pc = "done"
    /\ reas.total_count = MAX_EXPECTED_CATEGORY_COUNT
    /\ reas.full_rescan
    /\ reas.fetches > 1
    /\ reas.passed > 0

-----------------------------------------------------------------------------
(* The claim about the count of the REMAX adapter, under SpecRemax         *)

\* C26: RemaxScraper.run returns the number of listings scraped across
\* its search configurations, each listing counted once: the sum of the
\* counts of the configurations, which is the scraper's scraped_count.
C26_RunReturnsScrapedCount ==
    remax.pc = "done" => remax.total = remax.scraped_count

-----------------------------------------------------------------------------
(* The claim about the browser singleton, under SpecBrowser                *)

\* C28: for every interleaving of concurrent get_browser_manager callers,
\* the manager a call returns has a started browser at the moment it is
\* returned, and at most one browser is launched between two
\* close_browser_manager calls.
C28_ManagerStartedOnce ==
    [][/\ \A k \in Callers :
            (browser.caller[k].pc # "returned" /\ browser'.caller[k].pc = "returned")
                => browser'.started[browser'.caller[k].got]
       /\ browser'.launched <= 1]_vars

-----------------------------------------------------------------------------
(* The claim about the progress of repeated geocoding, under SpecGeoRepeat *)

\* C29: under repeated invocation of bulk_geocode with a fixed batch
\* size, every active listing without latitude is eventually attempted;
\* listings that cannot be geocoded do not keep older listings from ever
\* being selected.
C29_EveryListingAttempted ==
    \A l \in ListingIds :
        (IsActive(l) /\ geocoded[l].latitude = Null)
            ~> (geocoded[l].outcome # "none")

-----------------------------------------------------------------------------
(* The claim about the enum mapping, under SpecEnum *)

\* C30: a record whose property_type or offer_type is already a value of
\* the database enum is stored with that same value, and mapping a stored
\* value again gives the same value.
C30_CanonicalValuesKept ==
    \A c \in Calls : \A r \in listings :
        (/\ call[c].result # Null
         /\ r.id = call[c].result[1]
         /\ r.last_seen_at = call[c].now)
        => /\ call[c].data.property_type \in CanonicalPropertyTypes
                => r.property_type = call[c].data.property_type
           /\ call[c].data.offer_type \in CanonicalOfferTypes
                => r.offer_type = call[c].data.offer_type
           /\ property_type_db(r.property_type) = r.property_type
           /\ offer_type_db(r.offer_type) = r.offer_type

====
